---- MODULE Spec2Model ----
(***************************************************************************)
(* Model of the ReSpecT artifact index and cross-reference engine          *)
(* (respect_mcp/respect_manager).                                          *)
(*                                                                         *)
(* Part I models the Index Store (artifact_index_manager.py) and the ID    *)
(* allocator (ArtifactManager.get_artifact_id) as a set of callers whose   *)
(* file-system operations interleave.  One step of the model is one        *)
(* file-system operation of the code (an exists() test, a read_text, a     *)
(* write_text, an append, a flock).  write_text is taken as atomic.        *)
(*                                                                         *)
(* doc_id is the decimal string of a positive integer in the ledger; it is *)
(* modelled as the integer.  An artifact id "TYPE-N" is the record         *)
(* [t, n, lc, pv]: lc tells that the text is written in lower case, so     *)
(* that str.upper() is a real conversion; pv tells a provisional token     *)
(* "TYPE-PROVISIONALn".                                                    *)
(***************************************************************************)
EXTENDS Integers, Sequences, FiniteSets, TLC

\* ---------------------------------------------------------------- bounds
NProcs == 2
MaxCalls == 2
MaxNum == 2

\* ------------------------------------------------------------ vocabulary
Procs == 1..NProcs
NoVal == "none"
IndexTypes == {"REQ"}

Aid(t, n) == [t |-> t, n |-> n, lc |-> FALSE, pv |-> FALSE]
\* str.upper() of an artifact id
Upper(aid) == [aid EXCEPT !.lc = FALSE]

\* the token of a plain character or word; NoId is the empty text
Ch(s) == [t |-> s, n |-> 0, lc |-> FALSE, pv |-> FALSE]
NoId == Ch("")

\* ids a caller of add_artifact / update_artifact may pass
IdPool == { [t |-> t, n |-> n, lc |-> c, pv |-> FALSE] : t \in IndexTypes, n \in 1..MaxNum, c \in BOOLEAN }

VARIABLES
    indexExists,   \* index.md exists on disk
    ledger,        \* the parsed entry lines of index.md, in file order
    lockHolder,    \* caller holding flock(LOCK_EX) on index.md, or 0
    pc,            \* per caller: position in the operation it runs
    loc,           \* per caller: the operation's arguments and locals
    ncalls,        \* per caller: operations started so far
    returned,      \* history: results the operations returned, in order
    hdoc,          \* header codec: the artifact content being updated
    hcall,         \* header codec: the last update_managed_header call
    files,         \* the markdown files of the repository, in rglob order
    sreturned,     \* history: results of update_artifact_status, in order
    drafts,        \* the files of the provisional store, when it is a directory of its own
    storeInRepo,   \* the provisional store is the repository root
    floc,          \* per caller: the locals of finalize_provisional_file
    freturned      \* history: results of finalize_provisional_file, in order

finvars == <<drafts, storeInRepo, floc, freturned>>
docvars == <<hdoc, hcall, files, sreturned, finvars>>
vars == <<indexExists, ledger, lockHolder, pc, loc, ncalls, returned, docvars>>

\* ------------------------------------------------------------ index store
Entry(d, aid, name, status, isf, parent) ==
    [doc_id |-> d, artifact_id |-> aid, name |-> name, status |-> status,
     is_file |-> isf, parent |-> parent]

\* get_all_artifacts: [] when the file is missing, else the entry lines
GetAllArtifacts == IF indexExists THEN ledger ELSE << >>

\* index of the first entry whose artifact_id matches ignoring case, 0 if none
FirstMatch(led, aid) ==
    LET hits == { i \in 1..Len(led) : Upper(led[i].artifact_id) = Upper(aid) }
    IN  IF hits = {} THEN 0 ELSE CHOOSE i \in hits : \A j \in hits : i <= j

\* get_artifact_by_id: position of the entry found, 0 for None
GetArtifactById(led, aid) == FirstMatch(led, aid)

MaxDocId(led) ==
    IF Len(led) = 0 THEN 0
    ELSE CHOOSE m \in { led[i].doc_id : i \in 1..Len(led) } :
             \A i \in 1..Len(led) : led[i].doc_id <= m

\* get_next_doc_id, after _ensure_index_file_exists: max doc_id + 1, 1 if empty
NextDocId(led) == IF Len(led) = 0 THEN 1 ELSE MaxDocId(led) + 1

NoLoc == [op |-> "none", via |-> "none", aid |-> Aid("REQ", 0), typ |-> "REQ",
          name |-> NoVal, status |-> NoVal, is_file |-> TRUE, parent |-> NoVal,
          next_id |-> 0, lines |-> << >>,
          sarg |-> "", cur |-> NoVal, newc |-> << >>, flines |-> << >>,
          fidx |-> 0, start |-> 0, end |-> 0,
          iok |-> FALSE, cok |-> FALSE, cmsg |-> "", order |-> << >>]

\* the operation of caller p returns: ok tells success, doc_id the id that
\* add_artifact returned (0 otherwise), err the error raised ("" if none)
Ret(p, ok, d, err) ==
    /\ returned' = Append(returned, [p |-> p, op |-> loc[p].op, via |-> loc[p].via,
                                      aid |-> loc[p].aid, ok |-> ok, doc_id |-> d, err |-> err])
    /\ pc' = [pc EXCEPT ![p] = "idle"]
    /\ loc' = [loc EXCEPT ![p] = NoLoc]

\* --- add_artifact ---------------------------------------------------------
\* a caller starts add_artifact(artifact_id, ...) with an id of its choice
StartAdd(p, aid) ==
    /\ pc[p] = "idle" /\ ncalls[p] < MaxCalls
    /\ ncalls' = [ncalls EXCEPT ![p] = @ + 1]
    /\ loc' = [loc EXCEPT ![p] = [NoLoc EXCEPT !.op = "add", !.via = "add", !.aid = aid]]
    /\ pc' = [pc EXCEPT ![p] = "add_check"]
    /\ UNCHANGED <<docvars, indexExists, ledger, lockHolder, returned>>

\* line 265-267: existing = get_artifact_by_id(); raise ValueError if found
AddCheck(p) ==
    /\ pc[p] = "add_check"
    /\ IF GetArtifactById(GetAllArtifacts, loc[p].aid) # 0
       THEN Ret(p, FALSE, 0, "DuplicateArtifact") /\ UNCHANGED <<docvars, indexExists, ledger, lockHolder, ncalls>>
       ELSE /\ pc' = [pc EXCEPT ![p] = "add_ensure"]
            /\ UNCHANGED <<docvars, indexExists, ledger, lockHolder, loc, ncalls, returned>>

\* line 270, _ensure_index_file_exists line 52: if not self.index_file.exists()
AddEnsure(p) ==
    /\ pc[p] = "add_ensure"
    /\ pc' = [pc EXCEPT ![p] = IF indexExists THEN "add_lock" ELSE "add_create"]
    /\ UNCHANGED <<docvars, indexExists, ledger, lockHolder, loc, ncalls, returned>>

\* _ensure_index_file_exists line 73: write_text(initial_content) truncates
AddCreate(p) ==
    /\ pc[p] = "add_create"
    /\ indexExists' = TRUE
    /\ ledger' = << >>
    /\ pc' = [pc EXCEPT ![p] = "add_lock"]
    /\ UNCHANGED <<docvars, lockHolder, loc, ncalls, returned>>

\* line 273-276: open(index_file, 'a+') and flock(LOCK_EX), which blocks
AddLock(p) ==
    /\ pc[p] = "add_lock"
    /\ lockHolder = 0
    /\ lockHolder' = p
    /\ indexExists' = TRUE
    /\ ledger' = IF indexExists THEN ledger ELSE << >>
    /\ pc' = [pc EXCEPT ![p] = "add_next"]
    /\ UNCHANGED <<docvars, loc, ncalls, returned>>

\* line 279: next_id = self.get_next_doc_id() (the file exists: it is open)
AddNext(p) ==
    /\ pc[p] = "add_next"
    /\ loc' = [loc EXCEPT ![p].next_id = NextDocId(GetAllArtifacts)]
    /\ pc' = [pc EXCEPT ![p] = "add_append"]
    /\ UNCHANGED <<docvars, indexExists, ledger, lockHolder, ncalls, returned>>

\* line 283-297: format the line and append it (O_APPEND: at the end of the
\* file as it is now)
AddAppend(p) ==
    /\ pc[p] = "add_append"
    /\ ledger' = Append(ledger, Entry(loc[p].next_id, loc[p].aid, loc[p].name,
                                      loc[p].status, loc[p].is_file, loc[p].parent))
    /\ pc' = [pc EXCEPT ![p] = "add_unlock"]
    /\ UNCHANGED <<docvars, indexExists, lockHolder, loc, ncalls, returned>>

\* line 300-304: return doc_id; finally flock(LOCK_UN)
AddUnlock(p) ==
    /\ pc[p] = "add_unlock"
    /\ lockHolder' = 0
    /\ Ret(p, TRUE, loc[p].next_id, "")
    /\ UNCHANGED <<docvars, indexExists, ledger, ncalls>>

\* --- get_artifact_id ------------------------------------------------------
StartGid(p, t) ==
    /\ pc[p] = "idle" /\ ncalls[p] < MaxCalls
    /\ ncalls' = [ncalls EXCEPT ![p] = @ + 1]
    /\ loc' = [loc EXCEPT ![p] = [NoLoc EXCEPT !.op = "add", !.via = "gid", !.typ = t]]
    /\ pc' = [pc EXCEPT ![p] = "gid_ensure"]
    /\ UNCHANGED <<docvars, indexExists, ledger, lockHolder, returned>>

\* artifact_manager.py line 120 -> get_next_doc_id line 230: exists() test
GidEnsure(p) ==
    /\ pc[p] = "gid_ensure"
    /\ pc' = [pc EXCEPT ![p] = IF indexExists THEN "gid_next" ELSE "gid_create"]
    /\ UNCHANGED <<docvars, indexExists, ledger, lockHolder, loc, ncalls, returned>>

GidCreate(p) ==
    /\ pc[p] = "gid_create"
    /\ indexExists' = TRUE
    /\ ledger' = << >>
    /\ pc' = [pc EXCEPT ![p] = "gid_next"]
    /\ UNCHANGED <<docvars, lockHolder, loc, ncalls, returned>>

\* line 120-126: next_id read without the lock; artifact_id = f"{type}-{next_id}"
GidNext(p) ==
    /\ pc[p] = "gid_next"
    /\ LET n == NextDocId(GetAllArtifacts)
       IN  loc' = [loc EXCEPT ![p].aid = Aid(loc[p].typ, n)]
    /\ pc' = [pc EXCEPT ![p] = "add_check"]
    /\ UNCHANGED <<docvars, indexExists, ledger, lockHolder, ncalls, returned>>

\* --- update_artifact (index) ----------------------------------------------
UpdateFields == { [name |-> NoVal, status |-> "ACTIVE"], [name |-> "Renamed", status |-> NoVal] }

\* mutant: the name column is written whether a name was supplied or not
UpdatedLinesNameAlways(led, aid, f) ==
    LET i == FirstMatch(led, aid)
    IN  [led EXCEPT ![i] = [@ EXCEPT !.name = f.name,
                                     !.status = IF f.status # NoVal THEN f.status ELSE @]]

\* line 331-348: the matched line with the supplied fields replaced (f has
\* name and status, NoVal for None, and is_file and parent when supplied)
UpdatedLines(led, aid, f) ==
    LET i == FirstMatch(led, aid)
    IN  [led EXCEPT ![i] = [@ EXCEPT !.name = IF f.name # NoVal THEN f.name ELSE @,
                                     !.status = IF f.status # NoVal THEN f.status ELSE @,
                                     !.is_file = IF "is_file" \in DOMAIN f THEN f.is_file ELSE @,
                                     !.parent = IF "parent" \in DOMAIN f THEN f.parent ELSE @]]

StartUpdate(p, aid, f) ==
    /\ pc[p] = "idle" /\ ncalls[p] < MaxCalls
    /\ ncalls' = [ncalls EXCEPT ![p] = @ + 1]
    /\ loc' = [loc EXCEPT ![p] = [NoLoc EXCEPT !.op = "update", !.via = "update", !.aid = aid,
                                             !.name = f.name, !.status = f.status]]
    /\ pc' = [pc EXCEPT ![p] = "upd_read"]
    /\ UNCHANGED <<docvars, indexExists, ledger, lockHolder, returned>>

\* line 320-350: exists() test, read_text, scan for the first matching line
UpdRead(p) ==
    /\ pc[p] = "upd_read"
    /\ IF ~indexExists \/ FirstMatch(ledger, loc[p].aid) = 0
       THEN Ret(p, FALSE, 0, "") /\ UNCHANGED <<docvars, indexExists, ledger, lockHolder, ncalls>>
       ELSE /\ loc' = [loc EXCEPT ![p].lines =
                          UpdatedLines(ledger, loc[p].aid, [name |-> loc[p].name, status |-> loc[p].status])]
            /\ pc' = [pc EXCEPT ![p] = "upd_write"]
            /\ UNCHANGED <<docvars, indexExists, ledger, lockHolder, ncalls, returned>>

\* line 352-356: write_text of all the lines read, no lock taken
UpdWrite(p) ==
    /\ pc[p] = "upd_write"
    /\ ledger' = loc[p].lines
    /\ indexExists' = TRUE
    /\ Ret(p, TRUE, 0, "")
    /\ UNCHANGED <<docvars, lockHolder, ncalls>>

\* ------------------------------------------------------- specifications
NoCall == [n |-> 0, key |-> "", arg |-> << >>, had |-> FALSE, prev |-> << >>, ok |-> TRUE,
           before |-> << >>, headers |-> [x \in {} |-> << >>], pkey |-> "", parg |-> << >>, pok |-> FALSE]

NoFin == [dname |-> [id |-> NoId, us |-> FALSE], suffix |-> FALSE,
          content |-> << >>, updated |-> << >>, mains |-> << >>, nested |-> << >>,
          mtodo |-> << >>, ntodo |-> << >>, mapping |-> << >>, pfn |-> NoId,
          target |-> [id |-> NoId, us |-> FALSE], written |-> << >>, before |-> << >>,
          main_id |-> NoId, hook |-> "none", herror |-> FALSE, htodo |-> << >>, hcontent |-> << >>]

FinIdle ==
    drafts = << >> /\ storeInRepo = FALSE /\ floc = [p \in Procs |-> NoFin] /\ freturned = << >>

DocIdle == hdoc = << >> /\ hcall = NoCall /\ files = << >> /\ sreturned = << >> /\ FinIdle

IndexIdle ==
    /\ lockHolder = 0
    /\ pc = [p \in Procs |-> "idle"]
    /\ loc = [p \in Procs |-> NoLoc]
    /\ ncalls = [p \in Procs |-> 0]
    /\ returned = << >>

\* SpecAdd: add_artifact calls only, with ids distinct ignoring case, on a
\* repository whose ledger has no entry (index.md absent, or header only).
InitAdd ==
    /\ indexExists \in BOOLEAN
    /\ ledger = << >>
    /\ IndexIdle /\ DocIdle

IdsInUse == { Upper(loc[q].aid) : q \in { r \in Procs : loc[r].op = "add" } }
             \cup { Upper(returned[i].aid) : i \in 1..Len(returned) }

AddSteps(p) ==
    \/ AddCheck(p) \/ AddEnsure(p) \/ AddCreate(p) \/ AddLock(p)
    \/ AddNext(p) \/ AddAppend(p) \/ AddUnlock(p)

StartAddDistinct(p) == \E aid \in IdPool : Upper(aid) \notin IdsInUse /\ StartAdd(p, aid)

NextAdd == \E p \in Procs : StartAddDistinct(p) \/ AddSteps(p)

SpecAdd == InitAdd /\ [][NextAdd]_vars

\* SpecIndex: allocation through get_artifact_id and add_artifact, and index
\* update_artifact, on an existing ledger that holds one entry.
InitIndex ==
    /\ indexExists = TRUE
    /\ ledger = << Entry(1, Aid("REQ", 1), NoVal, NoVal, TRUE, NoVal) >>
    /\ IndexIdle /\ DocIdle

NextIndex ==
    \E p \in Procs :
        \/ \E t \in IndexTypes : StartGid(p, t)
        \/ \E aid \in IdPool : StartAdd(p, aid)
        \/ \E aid \in IdPool, f \in UpdateFields : StartUpdate(p, aid, f)
        \/ GidEnsure(p) \/ GidNext(p)
        \/ AddCheck(p) \/ AddEnsure(p) \/ AddLock(p)
        \/ AddNext(p) \/ AddAppend(p) \/ AddUnlock(p)
        \/ UpdRead(p) \/ UpdWrite(p)

SpecIndex == InitIndex /\ [][NextIndex]_vars

Spec == SpecIndex

\* -------------------------------------------------------------------------
\* Part II: text and the Header Codec (artifact_header_manager.py)
\*
\* A string is the sequence of its tokens; a token is a record of the shape
\* of an artifact id, Ch(s) being the token of a plain character or word.
\* A content string is the sequence of its lines (split on '\n').
\* -------------------------------------------------------------------------
MaxMembers == 2
MaxUpdates == 2

SP == Ch(" ")
COMMA == Ch(",")

\* str.lstrip / str.rstrip / str.strip
RECURSIVE LStrip(_)
LStrip(s) == IF Len(s) > 0 /\ s[1] = SP THEN LStrip(Tail(s)) ELSE s

RECURSIVE RStrip(_)
RStrip(s) == IF Len(s) > 0 /\ s[Len(s)] = SP THEN RStrip(SubSeq(s, 1, Len(s) - 1)) ELSE s

Strip(s) == LStrip(RStrip(s))

\* str.split(sep): the pieces between the separators, empty pieces included
RECURSIVE Split(_, _)
Split(s, sep) ==
    LET at == { i \in 1..Len(s) : s[i] = sep }
    IN  IF at = {} THEN << s >>
        ELSE LET i == CHOOSE x \in at : \A y \in at : x <= y
             IN  << SubSeq(s, 1, i - 1) >> \o Split(SubSeq(s, i + 1, Len(s)), sep)

\* sep.join(pieces)
RECURSIVE Join(_, _)
Join(ps, sep) ==
    IF Len(ps) = 0 THEN << >>
    ELSE IF Len(ps) = 1 THEN ps[1]
    ELSE ps[1] \o << sep >> \o Join(Tail(ps), sep)

\* [v.strip() for v in pieces]
StripAll(ps) == [i \in 1..Len(ps) |-> Strip(ps[i])]

\* --- lines of a content string
HeadLine(lvl, id, desc) == [k |-> "head", lvl |-> lvl, id |-> id, key |-> "", val |-> desc]
HdrLine(key, val) == [k |-> "hdr", lvl |-> 0, id |-> NoId, key |-> key, val |-> val]
TextLine(val) == [k |-> "text", lvl |-> 0, id |-> NoId, key |-> "", val |-> val]
BlankLine == [k |-> "blank", lvl |-> 0, id |-> NoId, key |-> "", val |-> << >>]

\* content.strip().split('\n'): no blank line at either end
RECURSIVE ContentStrip(_)
ContentStrip(c) ==
    IF Len(c) = 0 THEN c
    ELSE IF c[1].k = "blank" THEN ContentStrip(Tail(c))
    ELSE IF c[Len(c)].k = "blank" THEN ContentStrip(SubSeq(c, 1, Len(c) - 1))
    ELSE c

\* --- registries (artifact_types.json, artifact_managed_header_items.json)
ArtifactTypes == {"PRD", "REQ", "TASKPRD", "TASK", "UACC", "SACC"}

\* header_format of a type: the number of '#' before "TYPE-{id}: {description}"
HeaderLevel(t) == IF t \in {"PRD", "TASKPRD"} THEN 1 ELSE 3

\* managed_header_items, in the order of declaration
HeaderItems == <<
    [key |-> "STATUS", kind |-> "atomic", types |-> {"PRD", "REQ", "TASKPRD", "TASK", "UACC", "SACC"}],
    [key |-> "REFERENCED_BY", kind |-> "list", types |-> {"PRD"}],
    [key |-> "IMPLEMENTING_TASKS", kind |-> "list", types |-> {"REQ"}],
    [key |-> "COVERING_TESTS", kind |-> "list", types |-> {"REQ"}] >>

HeaderKind(key) == HeaderItems[CHOOSE i \in 1..Len(HeaderItems) : HeaderItems[i].key = key].kind

\* get_managed_headers_for_type: the keys of the items that apply to the type
ApplicableKeys(t) == { HeaderItems[i].key : i \in { j \in 1..Len(HeaderItems) : t \in HeaderItems[j].types } }

\* extract_artifact_type_and_id: the id of the title line, NoId for None
ExtractArtifactTypeAndId(content) ==
    LET lines == ContentStrip(content)
    IN  IF Len(lines) = 0 THEN NoId
        ELSE LET h == lines[1]
             IN  IF /\ h.k = "head" /\ h.id.t \in ArtifactTypes /\ ~h.id.lc /\ ~h.id.pv
                    /\ h.lvl = HeaderLevel(h.id.t) /\ Len(h.val) > 0
                 THEN h.id ELSE NoId

\* a dict of header values
NoHeaders == [x \in {} |-> << >>]
Put(h, key, v) == [x \in DOMAIN h \cup {key} |-> IF x = key THEN v ELSE h[x]]

\* line 159-184: the scan of the lines after the title line
RECURSIVE ParseLoop(_, _, _, _, _)
ParseLoop(lines, i, typ, headers, bstart) ==
    IF i > Len(lines) THEN [headers |-> headers, bstart |-> bstart]
    ELSE LET ln == lines[i]
         IN  IF ln.k = "blank" THEN ParseLoop(lines, i + 1, typ, headers, i + 1)
             ELSE IF ln.k = "hdr" /\ Len(Strip(ln.val)) > 0 /\ ln.key \in ApplicableKeys(typ)
             THEN ParseLoop(lines, i + 1, typ, Put(headers, ln.key, Strip(ln.val)), i + 1)
             ELSE [headers |-> headers, bstart |-> bstart]

\* parse_managed_headers: (header_line, managed_headers, remaining_content)
ParseManagedHeaders(content) ==
    LET lines == ContentStrip(content)
        info == ExtractArtifactTypeAndId(content)
    IN  IF Len(lines) = 0
        THEN [header_line |-> BlankLine, headers |-> NoHeaders, body |-> << >>]
        ELSE IF info = NoId
        THEN [header_line |-> lines[1], headers |-> NoHeaders, body |-> Tail(lines)]
        ELSE LET r == ParseLoop(lines, 2, info.t, NoHeaders, 2)
             IN  [header_line |-> lines[1], headers |-> r.headers,
                  body |-> SubSeq(lines, r.bstart, Len(lines))]

\* line 232-235: combined_values, each new value appended unless already in
RECURSIVE AppendNew(_, _)
AppendNew(combined, news) ==
    IF Len(news) = 0 THEN combined
    ELSE AppendNew(IF \E i \in 1..Len(combined) : combined[i] = news[1]
                   THEN combined ELSE Append(combined, news[1]),
                   Tail(news))

\* line 216-238: one item of header_updates applied to updated_headers
ApplyHeaderUpdate(headers, typ, key, new_value) ==
    IF key \notin ApplicableKeys(typ) THEN headers
    ELSE IF HeaderKind(key) = "atomic" THEN Put(headers, key, new_value)
    ELSE IF key \in DOMAIN headers
    THEN Put(headers, key, Join(AppendNew(StripAll(Split(headers[key], COMMA)),
                                          StripAll(Split(new_value, COMMA))), COMMA))
    ELSE Put(headers, key, new_value)

RECURSIVE ApplyHeaderUpdates(_, _, _)
ApplyHeaderUpdates(headers, typ, updates) ==
    IF Len(updates) = 0 THEN headers
    ELSE ApplyHeaderUpdates(ApplyHeaderUpdate(headers, typ, updates[1].key, updates[1].value),
                            typ, Tail(updates))

\* mutant: the header lines in the reverse of the registry's order
HeaderLinesReversed(headers, typ) ==
    LET keys == SelectSeq([i \in 1..Len(HeaderItems) |-> HeaderItems[Len(HeaderItems) + 1 - i].key],
                          LAMBDA key : key \in ApplicableKeys(typ) /\ key \in DOMAIN headers)
    IN  [i \in 1..Len(keys) |-> HdrLine(keys[i], << SP >> \o headers[keys[i]])]

\* line 244-248: the header lines, in the order of the registry
HeaderLines(headers, typ) ==
    LET keys == SelectSeq([i \in 1..Len(HeaderItems) |-> HeaderItems[i].key],
                          LAMBDA key : key \in ApplicableKeys(typ) /\ key \in DOMAIN headers)
    IN  [i \in 1..Len(keys) |-> HdrLine(keys[i], << SP >> \o headers[keys[i]])]

\* update_managed_header: ok = FALSE stands for the ValueError raised
UpdateManagedHeader(content, updates) ==
    LET p == ParseManagedHeaders(content)
        info == ExtractArtifactTypeAndId(content)
    IN  IF Len(ContentStrip(content)) = 0 \/ info = NoId
        THEN [ok |-> FALSE, content |-> content]
        ELSE [ok |-> TRUE,
              content |-> << p.header_line >>
                          \o HeaderLines(ApplyHeaderUpdates(p.headers, info.t, updates), info.t)
                          \o (IF \E i \in 1..Len(p.body) : p.body[i].k # "blank"
                              THEN p.body ELSE << >>)]

\* --- SpecHeader: update_managed_header applied to a REQ section
Names == {"A", "B", "C"}

RECURSIVE NameLists(_)
NameLists(n) ==
    IF n = 0 THEN { << >> }
    ELSE NameLists(n - 1) \cup { Append(l, x) : l \in { m \in NameLists(n - 1) : Len(m) = n - 1 }, x \in Names }

\* the new_value arguments: comma-separated lists of 1..MaxMembers names
ListArgs == { Join([i \in 1..Len(l) |-> << Ch(l[i]) >>], COMMA) : l \in NameLists(MaxMembers) \ { << >> } }
StatusArgs == { << Ch("NEW") >>, << Ch("ACTIVE") >> }

\* the contents a REQ section can have: title, header lines the codec wrote, body
HeaderDocs ==
    { << HeadLine(3, Aid("REQ", 1), << Ch("Login") >>) >> \o st \o it \o << TextLine(<< Ch("body") >>) >> :
        st \in { << >>, << HdrLine("STATUS", << SP, Ch("NEW") >>) >> },
        it \in { << >>, << HdrLine("IMPLEMENTING_TASKS", << SP, Ch("A") >>) >>,
                 << HdrLine("IMPLEMENTING_TASKS", << SP, Ch("A"), COMMA, SP, Ch("B") >>) >> } }

HeaderUpdate(key, v) ==
    /\ hcall.n < MaxUpdates
    /\ LET r == UpdateManagedHeader(hdoc, << [key |-> key, value |-> v] >>)
           before == ParseManagedHeaders(hdoc).headers
           info == ExtractArtifactTypeAndId(hdoc)
       IN  /\ hdoc' = r.content
           /\ hcall' = [n |-> hcall.n + 1, key |-> key, arg |-> v,
                        had |-> key \in DOMAIN before,
                        prev |-> IF key \in DOMAIN before THEN before[key] ELSE << >>,
                        ok |-> r.ok,
                        before |-> hdoc,
                        headers |-> IF r.ok THEN ApplyHeaderUpdate(before, info.t, key, v) ELSE NoHeaders,
                        pkey |-> hcall.key, parg |-> hcall.arg, pok |-> hcall.n > 0 /\ hcall.ok]
    /\ UNCHANGED <<indexExists, ledger, lockHolder, pc, loc, ncalls, returned, files, sreturned, finvars>>

HeaderUpdateList == \E v \in ListArgs : HeaderUpdate("IMPLEMENTING_TASKS", v)
HeaderUpdateAtomic == \E v \in StatusArgs : HeaderUpdate("STATUS", v)

InitHeader ==
    /\ hdoc \in HeaderDocs /\ hcall = NoCall /\ files = << >> /\ sreturned = << >> /\ FinIdle
    /\ indexExists = TRUE /\ ledger = << >> /\ IndexIdle

NextHeader == HeaderUpdateList \/ HeaderUpdateAtomic

SpecHeader == InitHeader /\ [][NextHeader]_vars

\* -------------------------------------------------------------------------
\* Part III: status updates (ArtifactManager.update_artifact_status and the
\* type handlers of artifact_type_handler.py)
\*
\* A file is [name, lines]; name is [id, us]: "ID_<words>.md" when us, else
\* "ID.md".  The index lookups inside get_artifact are taken together with
\* the file read that follows them: no operation of SpecStatus adds or
\* removes an index entry or changes is_file.
\* -------------------------------------------------------------------------
MaxStatusCalls == 2

File(id, us, lines) == [name |-> [id |-> id, us |-> us], lines |-> lines]

\* str.upper() of the status words the callers pass
StatusUpper(s) == IF s = "active" THEN "ACTIVE" ELSE s

\* the statuses of the default status vocabulary
GlobalStatuses == {"DRAFT", "REVIEW", "APPROVED", "ACTIVE", "COMPLETED", "CANCELLED", "ARCHIVED"}

\* 'valid_statuses' of a type's registry entry; {} when the entry has none
TypeValidStatuses(t) ==
    IF t \in {"REQ", "TASK", "UACC", "SACC"} THEN {"NEW", "ACTIVE", "COMPLETED"} ELSE {}

\* 'status_update_file_move' of a type's registry entry
MoveStatuses(t) == IF t \in {"PRD", "TASKPRD"} THEN {"ARCHIVED"} ELSE {}

\* get_valid_statuses_for_type: the type's own list, else the global one
GetValidStatusesForType(t) ==
    IF TypeValidStatuses(t) # {} THEN TypeValidStatuses(t) ELSE GlobalStatuses

\* mutant: no membership test, every status passes
IsValidStatusAlways(s, t) == TRUE

\* is_valid_status_for_type
IsValidStatusForType(s, t) == StatusUpper(s) \in GetValidStatusesForType(t)

\* the handlers that use ArtifactHandler.update_status as it is
TemplateHandlerTypes == {"REQ", "TASK"}

\* an identifier of digits only: the decimal text of n, with a leading zero
\* when lz
Num(n, lz) == [t |-> "#", n |-> n, lc |-> lz, pv |-> FALSE]

\* resolve_artifact_identifier: for an identifier of digits the artifact_id
\* of the first entry whose doc_id reads as the identifier; else
\* identifier.upper() compared with the ids as written in the index; the
\* id, or NoId for None
ResolveArtifactIdentifier(led, ident) ==
    IF ident.t = "#"
    THEN LET hits == { i \in 1..Len(led) : ~ident.lc /\ led[i].doc_id = ident.n }
         IN  IF hits = {} THEN NoId ELSE led[CHOOSE i \in hits : \A j \in hits : i <= j].artifact_id
    ELSE IF \E i \in 1..Len(led) : led[i].artifact_id = Upper(ident) THEN Upper(ident) ELSE NoId

\* decimal text of m is a prefix of the decimal text of n
RECURSIVE DecPrefix(_, _)
DecPrefix(m, n) == m = n \/ (n >= 10 /\ DecPrefix(m, n \div 10))

\* line.strip().startswith(f"### {artifact_id}")
StartsWithHeading(ln, aid) ==
    ln.k = "head" /\ ln.lvl = 3 /\ ln.id.t = aid.t /\ ln.id.lc = aid.lc /\ ln.id.pv = aid.pv
    /\ DecPrefix(aid.n, ln.id.n)

\* first line of the file that starts the section, 0 if none
SectionStart(lines, aid) ==
    LET hits == { i \in 1..Len(lines) : StartsWithHeading(lines[i], aid) }
    IN  IF hits = {} THEN 0 ELSE CHOOSE i \in hits : \A j \in hits : i <= j

\* first line after start that is another "### " heading, Len + 1 if none
SectionEnd(lines, start, aid) ==
    LET ends == { j \in (start + 1)..Len(lines) :
                    lines[j].k = "head" /\ lines[j].lvl = 3 /\ ~StartsWithHeading(lines[j], aid) }
    IN  IF ends = {} THEN Len(lines) + 1 ELSE CHOOSE j \in ends : \A x \in ends : j <= x

\* str.rstrip() of a content: no blank line at the end
RECURSIVE RStripLines(_)
RStripLines(c) ==
    IF Len(c) > 0 /\ c[Len(c)].k = "blank" THEN RStripLines(SubSeq(c, 1, Len(c) - 1)) ELSE c

\* first file, in rglob order, that holds the section; 0 if none
FileWithSection(fs, aid) ==
    LET hits == { f \in 1..Len(fs) : SectionStart(fs[f].lines, aid) # 0 }
    IN  IF hits = {} THEN 0 ELSE CHOOSE f \in hits : \A g \in hits : f <= g

\* _get_non_file_artifact
GetNonFileArtifact(fs, aid) ==
    LET f == FileWithSection(fs, aid)
    IN  IF f = 0 THEN [ok |-> FALSE, file |-> 0, content |-> << >>]
        ELSE LET st == SectionStart(fs[f].lines, aid)
                 en == SectionEnd(fs[f].lines, st, aid)
             IN  [ok |-> TRUE, file |-> f, content |-> RStripLines(SubSeq(fs[f].lines, st, en - 1))]

\* _get_file_artifact: "ID_*.md" first, then "ID.md"
GetFileArtifact(fs, aid) ==
    LET us == { f \in 1..Len(fs) : fs[f].name.id = aid /\ fs[f].name.us }
        ex == { f \in 1..Len(fs) : fs[f].name.id = aid /\ ~fs[f].name.us }
        hits == IF us # {} THEN us ELSE ex
    IN  IF hits = {} THEN [ok |-> FALSE, file |-> 0, content |-> << >>]
        ELSE LET f == CHOOSE x \in hits : \A y \in hits : x <= y
             IN  [ok |-> TRUE, file |-> f, content |-> fs[f].lines]

\* get_artifact
GetArtifact(led, fs, ident) ==
    LET aid == ResolveArtifactIdentifier(led, ident)
    IN  IF aid = NoId \/ GetArtifactById(led, aid) = 0
        THEN [ok |-> FALSE, file |-> 0, content |-> << >>]
        ELSE IF led[GetArtifactById(led, aid)].is_file
        THEN GetFileArtifact(fs, aid)
        ELSE GetNonFileArtifact(fs, aid)

\* header_updates = {'STATUS': status}
StatusUpdates(status) == << [key |-> "STATUS", value |-> << Ch(status) >>] >>

\* the result update_artifact_status returns
SRet(p, r) ==
    /\ sreturned' = Append(sreturned, r)
    /\ pc' = [pc EXCEPT ![p] = "idle"]
    /\ loc' = [loc EXCEPT ![p] = NoLoc]

NoHandlerResult == [success |-> FALSE, message |-> {}, updates |-> {}]

SResult(p, ok, err, valid, h) ==
    [ident |-> loc[p].aid, sarg |-> loc[p].sarg, cur |-> loc[p].cur,
     ok |-> ok, error |-> err, valid_statuses |-> valid, handler |-> h,
     iok |-> loc[p].iok, cok |-> loc[p].cok, cmsg |-> loc[p].cmsg, order |-> loc[p].order]

\* calls started so far, by all callers: those returned and those running
StatusCallsStarted == Len(sreturned) + Cardinality({ q \in Procs : pc[q] # "idle" })

StartStatus(p, ident, status) ==
    /\ pc[p] = "idle" /\ StatusCallsStarted < MaxStatusCalls
    /\ loc' = [loc EXCEPT ![p] = [NoLoc EXCEPT !.op = "status", !.via = "status",
                                             !.aid = ident, !.sarg = status]]
    /\ pc' = [pc EXCEPT ![p] = "st_resolve"]
    /\ UNCHANGED <<indexExists, ledger, lockHolder, ncalls, returned, hdoc, hcall, files, sreturned, finvars>>

\* artifact_manager.py line 1544-1565: resolve the identifier, validate the status
StResolve(p) ==
    /\ pc[p] = "st_resolve"
    /\ LET aid == ResolveArtifactIdentifier(GetAllArtifacts, loc[p].aid)
       IN  IF aid = NoId
           THEN SRet(p, SResult(p, FALSE, {"not_found"}, {}, NoHandlerResult))
           ELSE IF ~IsValidStatusForType(loc[p].sarg, aid.t)
           THEN SRet(p, [SResult(p, FALSE, {"invalid_status"}, GetValidStatusesForType(aid.t),
                                 NoHandlerResult)
                         EXCEPT !.cur = ledger[GetArtifactById(ledger, aid)].status])
           ELSE /\ loc' = [loc EXCEPT ![p].aid = aid, ![p].status = StatusUpper(loc[p].sarg),
                                      ![p].cur = ledger[GetArtifactById(ledger, aid)].status]
                /\ pc' = [pc EXCEPT ![p] = "st_index_read"]
                /\ UNCHANGED sreturned
    /\ UNCHANGED <<indexExists, ledger, lockHolder, ncalls, returned, hdoc, hcall, files, finvars>>

\* update_status_in_index -> update_artifact line 319-350: read and scan
StIndexRead(p) ==
    /\ pc[p] = "st_index_read"
    /\ IF ~indexExists \/ FirstMatch(ledger, loc[p].aid) = 0
       THEN /\ loc' = [loc EXCEPT ![p].iok = FALSE]
            /\ pc' = [pc EXCEPT ![p] = "st_get"]
       ELSE /\ loc' = [loc EXCEPT ![p].lines =
                          UpdatedLines(ledger, loc[p].aid, [name |-> NoVal, status |-> loc[p].status])]
            /\ pc' = [pc EXCEPT ![p] = "st_index_write"]
    /\ UNCHANGED <<indexExists, ledger, lockHolder, ncalls, returned, docvars>>

\* update_artifact line 352-356: write_text of the lines read
StIndexWrite(p) ==
    /\ pc[p] = "st_index_write"
    /\ ledger' = loc[p].lines
    /\ loc' = [loc EXCEPT ![p].iok = TRUE, ![p].order = Append(@, "index_write")]
    /\ pc' = [pc EXCEPT ![p] = "st_get"]
    /\ UNCHANGED <<indexExists, lockHolder, ncalls, returned, docvars>>

\* update_status_content: get_artifact, then the new content computed from it
\* (a PRD file whose title line does not parse, the legacy path, is not drawn)
StGet(p) ==
    /\ pc[p] = "st_get"
    /\ LET r == GetArtifact(GetAllArtifacts, files, loc[p].aid)
           u == UpdateManagedHeader(r.content, StatusUpdates(loc[p].status))
           template == loc[p].aid.t \in TemplateHandlerTypes
       IN  IF ~r.ok
           THEN /\ loc' = [loc EXCEPT ![p].cok = FALSE, ![p].cmsg = "failed_to_retrieve",
                                      ![p].order = Append(@, "content_read")]
                /\ pc' = [pc EXCEPT ![p] = "st_return"]
           ELSE IF ~u.ok
           THEN /\ template
                /\ loc' = [loc EXCEPT ![p].cok = FALSE, ![p].cmsg = "error_updating",
                                      ![p].order = Append(@, "content_read")]
                /\ pc' = [pc EXCEPT ![p] = "st_return"]
           ELSE /\ loc' = [loc EXCEPT ![p].newc = u.content, ![p].fidx = r.file,
                                      ![p].order = Append(@, "content_read")]
                /\ pc' = [pc EXCEPT ![p] = IF template THEN "st_scan" ELSE "st_file_write"]
    /\ UNCHANGED <<indexExists, ledger, lockHolder, ncalls, returned, docvars>>

\* _update_non_file_artifact line 547-577: the scan for the section
StScan(p) ==
    /\ pc[p] = "st_scan"
    /\ LET f == FileWithSection(files, loc[p].aid)
       IN  IF f = 0
           THEN /\ loc' = [loc EXCEPT ![p].cok = FALSE, ![p].cmsg = "failed_to_update"]
                /\ pc' = [pc EXCEPT ![p] = "st_return"]
           ELSE /\ loc' = [loc EXCEPT ![p].fidx = f,
                              ![p].start = SectionStart(files[f].lines, loc[p].aid),
                              ![p].end = SectionEnd(files[f].lines,
                                                    SectionStart(files[f].lines, loc[p].aid), loc[p].aid)]
                /\ pc' = [pc EXCEPT ![p] = "st_reread"]
    /\ UNCHANGED <<indexExists, ledger, lockHolder, ncalls, returned, docvars>>

\* _update_non_file_artifact line 586-587: the file read again
StReread(p) ==
    /\ pc[p] = "st_reread"
    /\ loc' = [loc EXCEPT ![p].flines = files[loc[p].fidx].lines]
    /\ pc' = [pc EXCEPT ![p] = "st_write"]
    /\ UNCHANGED <<indexExists, ledger, lockHolder, ncalls, returned, docvars>>

\* lines[:start_index] + new_content_lines + lines[end_index:] (0-based, end exclusive)
Splice(lines, start, end, new) ==
    SubSeq(lines, 1, start - 1) \o RStripLines(new)
    \o (IF end <= Len(lines) THEN SubSeq(lines, end, Len(lines)) ELSE << >>)

\* _update_non_file_artifact line 590-596: splice and write_text
StWrite(p) ==
    /\ pc[p] = "st_write"
    /\ files' = [files EXCEPT ![loc[p].fidx].lines =
                    Splice(loc[p].flines, loc[p].start, loc[p].end, loc[p].newc)]
    /\ loc' = [loc EXCEPT ![p].cok = TRUE, ![p].order = Append(@, "content_write")]
    /\ pc' = [pc EXCEPT ![p] = "st_return"]
    /\ UNCHANGED <<indexExists, ledger, lockHolder, ncalls, returned, hdoc, hcall, sreturned, finvars>>

\* PRDHandler.update_status_content line 1187-1189: Path(file_path).write_text
StFileWrite(p) ==
    /\ pc[p] = "st_file_write"
    /\ files' = [files EXCEPT ![loc[p].fidx].lines = loc[p].newc]
    /\ loc' = [loc EXCEPT ![p].cok = TRUE, ![p].order = Append(@, "content_write")]
    /\ pc' = [pc EXCEPT ![p] = "st_return"]
    /\ UNCHANGED <<indexExists, ledger, lockHolder, ncalls, returned, hdoc, hcall, sreturned, finvars>>

\* _combine_update_results: {"success", "message"}
CombineUpdateResults(iok, cok, cmsg) ==
    [success |-> cok,
     message |-> { IF iok THEN "index_updated" ELSE "index_warning", IF cok THEN "content_updated" ELSE cmsg },
     updates |-> {}]

\* PRDHandler.update_status line 1033-1063: {"success", "updates", ...}, no "message"
OverrideUpdateResults(iok, cok, cmsg) ==
    [success |-> cok,
     message |-> {},
     updates |-> { IF iok THEN "index_updated" ELSE "index_warning", IF cok THEN "content_updated" ELSE cmsg }]

\* artifact_manager.py line 1610-1616: msg = handler_result.get("message", default)
HandlerMessage(h) == IF h.message # {} THEN h.message ELSE {"updated_to_status"}

\* the handler returns (for the PRD handler after _move_file_for_status, whose
\* line 216-223 finds that the status asks for no file move) and
\* update_artifact_status returns its results
StReturn(p) ==
    /\ pc[p] = "st_return"
    /\ loc[p].status \notin MoveStatuses(loc[p].aid.t)
    /\ LET h == IF loc[p].aid.t \in TemplateHandlerTypes
                THEN CombineUpdateResults(loc[p].iok, loc[p].cok, loc[p].cmsg)
                ELSE OverrideUpdateResults(loc[p].iok, loc[p].cok, loc[p].cmsg)
       IN  SRet(p, SResult(p, h.success, IF h.success THEN {} ELSE HandlerMessage(h), {}, h))
    /\ UNCHANGED <<indexExists, ledger, lockHolder, ncalls, returned, hdoc, hcall, files, finvars>>

\* --- SpecStatus: update_artifact_status calls on a repository with one PRD
\* file that holds the section of REQ-1; REQ-2 and PRD-2 are allocated in the
\* index but have no content yet.
StatusRepoFile(s0) ==
    File(Aid("PRD", 1), TRUE,
         << HeadLine(1, Aid("PRD", 1), << Ch("Product") >>),
            HdrLine("STATUS", << SP, Ch(s0) >>),
            BlankLine,
            TextLine(<< Ch("intro") >>),
            HeadLine(3, Aid("REQ", 1), << Ch("Login") >>),
            HdrLine("STATUS", << SP, Ch(s0) >>),
            BlankLine,
            TextLine(<< Ch("body") >>) >>)

StatusLedger(s0) ==
    << Entry(1, Aid("PRD", 1), "Product", s0, TRUE, NoVal),
       Entry(2, Aid("REQ", 1), "Login", s0, FALSE, Aid("PRD", 1)),
       Entry(3, Aid("REQ", 2), NoVal, NoVal, FALSE, Aid("PRD", 1)),
       Entry(4, Aid("PRD", 2), NoVal, NoVal, TRUE, NoVal) >>

StatusCalls ==
    { <<Aid("REQ", 1), "COMPLETED">>, <<Aid("REQ", 1), "active">>, <<Aid("REQ", 1), "ARCHIVED">>,
      <<Aid("REQ", 2), "ACTIVE">>, <<Aid("PRD", 1), "ACTIVE">>, <<Aid("PRD", 2), "ACTIVE">> }

InitStatus ==
    /\ ledger = StatusLedger("NEW")
    /\ files = << StatusRepoFile("NEW") >>
    /\ indexExists = TRUE /\ IndexIdle
    /\ hdoc = << >> /\ hcall = NoCall /\ sreturned = << >> /\ FinIdle

NextStatus ==
    \E p \in Procs :
        \/ \E c \in StatusCalls : StartStatus(p, c[1], c[2])
        \/ StResolve(p) \/ StIndexRead(p) \/ StIndexWrite(p) \/ StGet(p)
        \/ StScan(p) \/ StReread(p) \/ StWrite(p) \/ StFileWrite(p) \/ StReturn(p)

SpecStatus == InitStatus /\ [][NextStatus]_vars

\* -------------------------------------------------------------------------
\* Part IV: finalization of provisional drafts
\* (ArtifactManager.finalize_provisional_file and the finalize hooks of
\* artifact_type_handler.py)
\*
\* A provisional token "TYPE-PROVISIONALn" is the record [t, n, lc, pv] with
\* pv = TRUE.  The tokens of a line are its heading id followed by the tokens
\* of its text.  A line "*Key*: text" is a marker line, a line "Key: text" a
\* legacy metadata line.  The provisional store is flat; it is a directory of
\* its own (drafts) or the repository root itself (storeInRepo).  In the
\* ledgers of this part a name is a string of tokens (<< >> for the empty
\* name field) and a parent is an id (NoId for the empty parent field).
\* Finalizations run one after another; one step is one get_artifact_id
\* call, one file write, one unlink, or one status update of the hook.
\* -------------------------------------------------------------------------
MaxFinalizations == 2

Prov(t, n, lc) == [t |-> t, n |-> n, lc |-> lc, pv |-> TRUE]
MarkerLine(key, val) == [k |-> "marker", lvl |-> 0, id |-> NoId, key |-> key, val |-> val]
LegacyLine(key, val) == [k |-> "legacy", lvl |-> 0, id |-> NoId, key |-> key, val |-> val]

\* a step reference: the word "PROVISIONALk.m" (pv) or "k.m", m the text ".m"
StepRef(k, m, pv) == [t |-> m, n |-> k, lc |-> FALSE, pv |-> pv]

MinOf(S) == CHOOSE x \in S : \A y \in S : x <= y

\* 'is_file' of a type's registry entry
TypeIsFile(t) == t \in {"PRD", "TASKPRD"}

\* get_version_footer: "\n\n<!-- ReSpecT v{__version__} -->"
VersionFooter == << BlankLine, TextLine(<< Ch("<!-- ReSpecT -->") >>) >>

\* the words of a line
LineTokens(ln) == << ln.id >> \o ln.val

ContentTokens(content) ==
    UNION { { LineTokens(content[i])[j] : j \in 1..Len(LineTokens(content[i])) } : i \in 1..Len(content) }

\* find_provisional_artifact_ids: re.IGNORECASE matches, each .upper()ed
FindProvisionalArtifactIds(content) ==
    { Upper(tok) : tok \in { x \in ContentTokens(content) : x.pv /\ x.t \in ArtifactTypes } }

\* the decimal text of n, as the sequence of its digits
RECURSIVE Digits(_)
Digits(n) == IF n < 10 THEN << n >> ELSE Append(Digits(n \div 10), n % 10)

\* str < str on digit texts
RECURSIVE SeqLess(_, _)
SeqLess(a, b) ==
    IF Len(b) = 0 THEN FALSE
    ELSE IF Len(a) = 0 THEN TRUE
    ELSE IF a[1] # b[1] THEN a[1] < b[1]
    ELSE SeqLess(Tail(a), Tail(b))

\* str < str on two ids of the same letter case and kind; the order of the
\* type texts is "PRD" < "REQ" < "SACC" < "TASK-" < "TASKPRD-" < "UACC"
IdLess(a, b) ==
    LET TypeRank(t) == CASE t = "PRD" -> 1 [] t = "REQ" -> 2 [] t = "SACC" -> 3 [] t = "TASK" -> 4
                         [] t = "TASKPRD" -> 5 [] t = "UACC" -> 6 [] OTHER -> 7
    IN  TypeRank(a.t) < TypeRank(b.t) \/ (a.t = b.t /\ SeqLess(Digits(a.n), Digits(b.n)))

\* sorted(provisional_ids)
RECURSIVE SortIds(_)
SortIds(S) ==
    IF S = {} THEN << >>
    ELSE LET m == CHOOSE x \in S : \A y \in S \ {x} : IdLess(x, y)
         IN  << m >> \o SortIds(S \ {m})

\* artifact_id in word: the id's text is a substring of the word's text (the
\* type text of the id ends the type text of the word: "PRD" ends "TASKPRD")
TokenContains(tok, aid) ==
    /\ tok.pv = aid.pv /\ tok.lc = aid.lc
    /\ (tok.t = aid.t \/ (tok.t = "TASKPRD" /\ aid.t = "PRD"))
    /\ DecPrefix(aid.n, tok.n)

\* _is_main_artifact: the id is in a '#' or '##' heading line, else the
\* registry's is_file of its type
IsMainArtifact(content, aid) ==
    \/ \E i \in 1..Len(content) :
          /\ content[i].k = "head" /\ content[i].lvl \in {1, 2}
          /\ \E j \in 1..Len(LineTokens(content[i])) : TokenContains(LineTokens(content[i])[j], aid)
    \/ TypeIsFile(aid.t)

\* mutant: no name is found
ExtractArtifactNameNone(content, aid) == << >>

\* _extract_artifact_name: the text after "ID:" of the first heading line of
\* the id (re.IGNORECASE), << >> for None
ExtractArtifactName(content, aid) ==
    LET hits == { i \in 1..Len(content) :
                    content[i].k = "head" /\ Upper(content[i].id) = Upper(aid) /\ Len(Strip(content[i].val)) > 0 }
    IN  IF hits = {} THEN << >> ELSE Strip(content[MinOf(hits)].val)

\* get_artifact_id run alone: the id made of the next doc_id and the ledger
\* with its entry appended; ok = FALSE for the ValueError of add_artifact
GetArtifactId(led, t, name, isf, parent) ==
    LET aid == Aid(t, NextDocId(led))
    IN  IF GetArtifactById(led, aid) # 0
        THEN [ok |-> FALSE, id |-> NoId, ledger |-> led]
        ELSE [ok |-> TRUE, id |-> aid,
              ledger |-> Append(led, Entry(NextDocId(led), aid, name, NoVal, isf, parent))]

\* re.sub(r'\b' + re.escape(provisional_id) + r'\b', new_artifact_id, text):
\* the words that read exactly as the id, letter case included
ReplaceId(content, old, new) ==
    [i \in 1..Len(content) |->
        [content[i] EXCEPT !.id = IF @ = old THEN new ELSE @,
                           !.val = [j \in 1..Len(@) |-> IF @[j] = old THEN new ELSE @[j]]]]

\* _generate_target_filename: the stem is rewritten when it reads as a mapped
\* provisional id ('_' is a word character: "ID_words" has no match); a
\* suffix is appended as "_suffix"
GenerateTargetFilename(name, mapping, sfx) ==
    LET hits == { k \in 1..Len(mapping) : ~name.us /\ name.id = mapping[k].prov }
    IN  [id |-> IF hits = {} THEN name.id ELSE mapping[MinOf(hits)].final, us |-> name.us \/ sfx]

\* validate_provisional_filename: the type of "TYPE-PROVISIONALn.md" in any
\* letter case, "" when the name does not match
ValidateProvisionalFilename(name) ==
    IF ~name.us /\ name.id.pv /\ name.id.t \in ArtifactTypes THEN name.id.t ELSE ""

\* update_status_in_index run alone
UpdateStatusInIndex(led, aid, status) ==
    IF FirstMatch(led, aid) = 0 THEN led
    ELSE UpdatedLines(led, aid, [name |-> NoVal, status |-> status])

\* _update_non_file_artifact run alone: scan, splice, write_text
UpdateNonFileArtifact(fs, aid, newc) ==
    LET f == FileWithSection(fs, aid)
    IN  IF f = 0 THEN [ok |-> FALSE, files |-> fs]
        ELSE LET st == SectionStart(fs[f].lines, aid)
                 en == SectionEnd(fs[f].lines, st, aid)
             IN  [ok |-> TRUE, files |-> [fs EXCEPT ![f].lines = Splice(@, st, en, newc)]]

\* number of "Key: value" lines from line i on
RECURSIVE LegacyCount(_, _)
LegacyCount(lines, i) ==
    IF i <= Len(lines) /\ lines[i].k = "legacy" THEN 1 + LegacyCount(lines, i + 1) ELSE 0

\* _legacy_manage_header_metadata_lines with updates = {'Status': status}
LegacyManageHeaderMetadataLines(lines, status) ==
    IF Len(lines) = 0 THEN lines
    ELSE << lines[1], LegacyLine("Status", << SP, Ch(status) >>) >>
         \o SubSeq(lines, 2 + LegacyCount(lines, 2), Len(lines))

\* _manage_header_metadata_lines with updates = {'Status': status}
ManageHeaderMetadataLines(content, status) ==
    LET u == UpdateManagedHeader(content, StatusUpdates(status))
    IN  IF u.ok THEN u.content ELSE LegacyManageHeaderMetadataLines(content, status)

\* PRDHandler / TaskPRDHandler.update_status_content run alone (no file
\* drawn has a legacy "Referenced by:" line)
FileStatusContent(led, fs, aid, status) ==
    LET r == GetArtifact(led, fs, aid)
    IN  IF ~r.ok THEN [ok |-> FALSE, files |-> fs]
        ELSE [ok |-> TRUE,
              files |-> [fs EXCEPT ![r.file].lines = ManageHeaderMetadataLines(r.content, status)]]

\* REQHandler.update_status_content run alone
SectionStatusContent(led, fs, aid, status) ==
    LET r == GetArtifact(led, fs, aid)
        u == UpdateManagedHeader(r.content, StatusUpdates(status))
    IN  IF ~r.ok \/ ~u.ok THEN [ok |-> FALSE, files |-> fs]
        ELSE UpdateNonFileArtifact(fs, aid, u.content)

\* the members of a list header, [] when the header is absent or blank
ListMembers(headers, key) ==
    IF key \in DOMAIN headers /\ Len(Strip(headers[key])) > 0
    THEN StripAll(Split(headers[key], COMMA)) ELSE << >>

\* task.split(' (')[0].strip()
CleanTask(m) ==
    LET at == { i \in 1..(Len(m) - 1) : m[i] = SP /\ m[i + 1] = Ch("(") }
    IN  Strip(IF at = {} THEN m ELSE SubSeq(m, 1, MinOf(at) - 1))

\* f"{task_id} ({status})"
Annotated(task, status) == << task, SP, Ch("("), Ch(status), Ch(")") >>

\* m put before the first member whose id is greater (the order of the sort
\* key, the member's id)
RECURSIVE InsertSorted(_, _)
InsertSorted(s, m) ==
    LET MemberLess(a, b) ==
            IF Len(CleanTask(a)) = 0 THEN Len(CleanTask(b)) > 0
            ELSE Len(CleanTask(b)) > 0 /\ IdLess(CleanTask(a)[1], CleanTask(b)[1])
    IN  IF Len(s) = 0 THEN << m >>
        ELSE IF MemberLess(m, s[1]) THEN << m >> \o s
        ELSE << s[1] >> \o InsertSorted(Tail(s), m)

\* list.sort(key = the member's id): stable
RECURSIVE SortMembers(_)
SortMembers(s) ==
    IF Len(s) = 0 THEN << >>
    ELSE InsertSorted(SortMembers(SubSeq(s, 1, Len(s) - 1)), s[Len(s)])

\* result_lines: the title line, the header lines of the type in registry
\* order, the body when it is not blank
RebuildContent(p, headers, typ) ==
    << p.header_line >> \o HeaderLines(headers, typ)
    \o (IF \E i \in 1..Len(p.body) : p.body[i].k # "blank" THEN p.body ELSE << >>)

\* _extract_req_implementations: the REQ ids of the first "*Implements*:" line
ExtractReqImplementations(content) ==
    LET hits == { i \in 1..Len(content) : content[i].k = "marker" /\ content[i].key = "Implements" }
    IN  IF hits = {} THEN << >>
        ELSE SelectSeq(content[MinOf(hits)].val, LAMBDA tok : tok.t = "REQ" /\ ~tok.lc /\ ~tok.pv)

\* _update_req_implementing_task_status run alone: the member of the task
\* becomes "TASK-n (STATUS)", appended when the list has no such member
\* (a REQ whose title line does not parse raises before any write)
UpdateReqImplementingTaskStatus(led, fs, req, task, status) ==
    LET r == GetArtifact(led, fs, req)
        p == ParseManagedHeaders(r.content)
        info == ExtractArtifactTypeAndId(r.content)
        cur == ListMembers(p.headers, "IMPLEMENTING_TASKS")
        found == \E i \in 1..Len(cur) : CleanTask(cur[i]) = << task >>
        upd == IF found
               THEN [i \in 1..Len(cur) |-> IF CleanTask(cur[i]) = << task >> THEN Annotated(task, status) ELSE cur[i]]
               ELSE Append(cur, Annotated(task, status))
    IN  IF ~r.ok \/ info = NoId THEN fs
        ELSE UpdateNonFileArtifact(fs, req,
                 RebuildContent(p, Put(p.headers, "IMPLEMENTING_TASKS", Join(upd, COMMA)), info.t)).files

RECURSIVE PropagateTaskStatus(_, _, _, _, _)
PropagateTaskStatus(led, fs, reqs, task, status) ==
    IF Len(reqs) = 0 THEN fs
    ELSE PropagateTaskStatus(led, UpdateReqImplementingTaskStatus(led, fs, reqs[1], task, status),
                             Tail(reqs), task, status)

\* TASKHandler.update_status_content run alone
TaskStatusContent(led, fs, aid, status) ==
    LET r == GetArtifact(led, fs, aid)
        u == UpdateManagedHeader(r.content, StatusUpdates(status))
        w == UpdateNonFileArtifact(fs, aid, u.content)
    IN  IF ~r.ok \/ ~u.ok \/ ~w.ok THEN [ok |-> FALSE, files |-> fs]
        ELSE [ok |-> TRUE,
              files |-> PropagateTaskStatus(led, w.files, ExtractReqImplementations(r.content), aid, status)]

\* _update_req_with_implementing_task run alone, with
\* _add_or_update_implementing_task_line: the task id joins the list unless a
\* member already names it, and the list is sorted (the legacy path, taken
\* when the title line does not parse, ends without a section to write to
\* for the contents drawn)
UpdateReqWithImplementingTask(led, fs, req, task) ==
    LET r == GetArtifact(led, fs, req)
        p == ParseManagedHeaders(r.content)
        info == ExtractArtifactTypeAndId(r.content)
        cur == ListMembers(p.headers, "IMPLEMENTING_TASKS")
        found == \E i \in 1..Len(cur) : CleanTask(cur[i]) = << task >>
        upd == SortMembers(IF found THEN cur ELSE Append(cur, << task >>))
    IN  IF ~r.ok \/ info = NoId THEN fs
        ELSE UpdateNonFileArtifact(fs, req,
                 RebuildContent(p, Put(p.headers, "IMPLEMENTING_TASKS", Join(upd, COMMA)), info.t)).files

RECURSIVE UpdateReqsWithImplementingTask(_, _, _, _)
UpdateReqsWithImplementingTask(led, fs, reqs, task) ==
    IF Len(reqs) = 0 THEN fs
    ELSE UpdateReqsWithImplementingTask(led, UpdateReqWithImplementingTask(led, fs, reqs[1], task),
                                        Tail(reqs), task)

\* _extract_task_section line 732-745: the lines from line i on, up to a
\* line that starts with '### TASK-' and not with f'### {task_id}:'
RECURSIVE TaskSectionFrom(_, _, _)
TaskSectionFrom(lines, i, task) ==
    IF i > Len(lines) THEN << >>
    ELSE IF lines[i].k = "head" /\ lines[i].lvl = 3 /\ lines[i].id = task
    THEN << lines[i] >> \o TaskSectionFrom(lines, i + 1, task)
    ELSE IF lines[i].k = "head" /\ lines[i].lvl = 3 /\ lines[i].id.t = "TASK" /\ ~lines[i].id.lc
    THEN << >>
    ELSE << lines[i] >> \o TaskSectionFrom(lines, i + 1, task)

\* _extract_task_section: from the first line that starts with f'### {task_id}:'
ExtractTaskSection(content, task) ==
    LET hits == { i \in 1..Len(content) :
                    content[i].k = "head" /\ content[i].lvl = 3 /\ content[i].id = task }
    IN  IF hits = {} THEN << >> ELSE TaskSectionFrom(content, MinOf(hits), task)

\* TaskPRDHandler.finalize line 540-553: the text before the first ':' of the
\* first "*Parent*:" line, << >> when there is none
ParentPrdId(content) ==
    LET hits == { i \in 1..Len(content) : content[i].k = "marker" /\ content[i].key = "Parent" }
    IN  IF hits = {} \/ Len(Strip(content[MinOf(hits)].val)) = 0 THEN << >>
        ELSE Strip(Split(Strip(content[MinOf(hits)].val), Ch(":"))[1])

\* TaskPRDHandler.finalize line 555-612: the TASKPRD joins REFERENCED_BY of
\* its parent, and the rebuilt content is written to the parent's file_path
UpdateParentReference(led, fs, content, aid) ==
    LET pid == ParentPrdId(content)
        r == GetArtifact(led, fs, pid[1])
        p == ParseManagedHeaders(r.content)
        info == ExtractArtifactTypeAndId(r.content)
        cur == ListMembers(p.headers, "REFERENCED_BY")
    IN  IF Len(pid) # 1 THEN fs
        ELSE IF ~r.ok \/ info = NoId \/ (\E i \in 1..Len(cur) : cur[i] = << aid >>) THEN fs
        ELSE [fs EXCEPT ![r.file].lines =
                 RebuildContent(p, Put(p.headers, "REFERENCED_BY",
                                       Join(SortMembers(Append(cur, << aid >>)), COMMA)), info.t)]

\* the final ids of one type in id_mapping.values(), in insertion order
FinalsOfType(mapping, t) ==
    LET sel == SelectSeq(mapping, LAMBDA m : m.final.t = t)
    IN  [i \in 1..Len(sel) |-> sel[i].final]

\* --- finalize_provisional_file ---------------------------------------------
Store == IF storeInRepo THEN files ELSE drafts


\* line 1437-1446: the draft at position d of the store is found by its name
\* and read; _process_provisional_ids line 831-852 finds, sorts and classifies
\* its provisional ids (a suffix is passed only for a name without one)
FinStart(p, d, sfx) ==
    /\ \A q \in Procs : pc[q] = "idle"
    /\ Len(freturned) < MaxFinalizations
    /\ d \in 1..Len(Store)
    /\ sfx => ~Store[d].name.us
    /\ LET content == Store[d].lines
           ids == SortIds(FindProvisionalArtifactIds(content))
           mains == SelectSeq(ids, LAMBDA x : IsMainArtifact(content, x))
           nested == SelectSeq(ids, LAMBDA x : ~IsMainArtifact(content, x))
       IN  /\ floc' = [floc EXCEPT ![p] =
                         [NoFin EXCEPT !.dname = Store[d].name, !.suffix = sfx, !.content = content,
                                       !.updated = content, !.mains = mains, !.nested = nested,
                                       !.mtodo = mains, !.ntodo = nested, !.before = GetAllArtifacts]]
           /\ pc' = [pc EXCEPT ![p] = IF Len(ids) = 0 THEN "fin_return" ELSE "fin_alloc"]
    /\ UNCHANGED <<indexExists, ledger, lockHolder, loc, ncalls, returned,
                   hdoc, hcall, files, sreturned, drafts, storeInRepo, freturned>>

\* _process_provisional_ids line 858-921: one pass of a loop, the main ids
\* first: name, get_artifact_id, mapping, parent_for_nested, re.sub
FinAllocate(p) ==
    /\ pc[p] = "fin_alloc"
    /\ LET f == floc[p]
           ismain == Len(f.mtodo) > 0
           prov == IF ismain THEN f.mtodo[1] ELSE f.ntodo[1]
           name == ExtractArtifactName(f.content, prov)
           r == GetArtifactId(GetAllArtifacts, prov.t, name, ismain, IF ismain THEN NoId ELSE f.pfn)
           mtodo == IF ismain THEN Tail(f.mtodo) ELSE f.mtodo
           ntodo == IF ismain THEN f.ntodo ELSE Tail(f.ntodo)
           mapping == IF r.ok THEN Append(f.mapping, [prov |-> prov, final |-> r.id]) ELSE f.mapping
       IN  /\ indexExists' = TRUE
           /\ ledger' = r.ledger
           /\ floc' = [floc EXCEPT ![p].mtodo = mtodo, ![p].ntodo = ntodo, ![p].mapping = mapping,
                                   ![p].pfn = IF r.ok /\ ismain /\ f.pfn = NoId THEN r.id ELSE f.pfn,
                                   ![p].updated = IF r.ok THEN ReplaceId(f.updated, prov, r.id) ELSE f.updated]
           /\ pc' = [pc EXCEPT ![p] = IF Len(mtodo) + Len(ntodo) > 0 THEN "fin_alloc"
                                      ELSE IF Len(mapping) = 0 THEN "fin_return" ELSE "fin_write"]
    /\ UNCHANGED <<lockHolder, loc, ncalls, returned,
                   hdoc, hcall, files, sreturned, drafts, storeInRepo, freturned>>

\* line 1457-1467: the target name, the footer, write_text in the repository
\* root; a new file takes any place in the rglob order
FinWrite(p, pos) ==
    /\ pc[p] = "fin_write"
    /\ LET f == floc[p]
           target == GenerateTargetFilename(f.dname, f.mapping, f.suffix)
           final_content == RStripLines(f.updated) \o VersionFooter
           same == { i \in 1..Len(files) : files[i].name = target }
       IN  /\ IF same # {}
              THEN pos = 1 /\ files' = [files EXCEPT ![MinOf(same)].lines = final_content]
              ELSE /\ pos \in 1..(Len(files) + 1)
                   /\ files' = SubSeq(files, 1, pos - 1)
                               \o << [name |-> target, lines |-> final_content] >>
                               \o SubSeq(files, pos, Len(files))
           /\ floc' = [floc EXCEPT ![p].target = target, ![p].written = final_content]
    /\ pc' = [pc EXCEPT ![p] = "fin_unlink"]
    /\ UNCHANGED <<indexExists, ledger, lockHolder, loc, ncalls, returned,
                   hdoc, hcall, sreturned, drafts, storeInRepo, freturned>>

\* line 1470: provisional_file_path.unlink()
FinUnlink(p) ==
    /\ pc[p] = "fin_unlink"
    /\ IF storeInRepo
       THEN files' = SelectSeq(files, LAMBDA x : x.name # floc[p].dname) /\ UNCHANGED drafts
       ELSE drafts' = SelectSeq(drafts, LAMBDA x : x.name # floc[p].dname) /\ UNCHANGED files
    /\ pc' = [pc EXCEPT ![p] = "fin_hook"]
    /\ UNCHANGED <<indexExists, ledger, lockHolder, loc, ncalls, returned,
                   hdoc, hcall, sreturned, storeInRepo, floc, freturned>>

\* line 1473-1495: the type of the draft's file name selects the main id and
\* the handler; then the start of the handler's finalize: the base one does
\* nothing, PRDHandler.finalize line 1094-1110 and TaskPRDHandler.finalize
\* line 508-612 set the main artifact to NEW (no file move for NEW), the
\* latter reads the TASKPRD back and updates the parent's REFERENCED_BY
FinHook(p) ==
    /\ pc[p] = "fin_hook"
    /\ "NEW" \notin MoveStatuses("PRD") \cup MoveStatuses("TASKPRD")
    /\ LET f == floc[p]
           vt == ValidateProvisionalFilename(f.dname)
           cands == FinalsOfType(f.mapping, vt)
           main_id == IF vt # "" /\ Len(cands) > 0 THEN cands[1] ELSE NoId
           led0 == UpdateStatusInIndex(GetAllArtifacts, main_id, "NEW")
           led1 == IF vt = "PRD" THEN UpdateStatusInIndex(led0, main_id, "NEW") ELSE led0
           c == FileStatusContent(led1, files, main_id, "NEW")
           g == GetArtifact(led1, c.files, main_id)
           todo == FinalsOfType(f.mapping, IF vt = "PRD" THEN "REQ" ELSE "TASK")
       IN  IF main_id = NoId \/ vt \notin {"PRD", "TASKPRD"}
           THEN /\ floc' = [floc EXCEPT ![p].main_id = main_id,
                                        ![p].hook = IF main_id = NoId THEN "none" ELSE vt]
                /\ pc' = [pc EXCEPT ![p] = "fin_return"]
                /\ UNCHANGED <<ledger, files>>
           ELSE IF vt = "TASKPRD" /\ ~g.ok
           THEN /\ ledger' = led1 /\ files' = c.files
                /\ floc' = [floc EXCEPT ![p].main_id = main_id, ![p].hook = vt, ![p].herror = TRUE]
                /\ pc' = [pc EXCEPT ![p] = "fin_return"]
           ELSE /\ ledger' = led1
                /\ files' = IF vt = "TASKPRD" THEN UpdateParentReference(led1, c.files, g.content, main_id)
                            ELSE c.files
                /\ floc' = [floc EXCEPT ![p].main_id = main_id, ![p].hook = vt, ![p].htodo = todo,
                                        ![p].hcontent = IF vt = "TASKPRD" THEN g.content ELSE << >>]
                /\ pc' = [pc EXCEPT ![p] = IF Len(todo) = 0 THEN "fin_return" ELSE "fin_nested"]
    /\ UNCHANGED <<indexExists, lockHolder, loc, ncalls, returned,
                   hdoc, hcall, sreturned, drafts, storeInRepo, freturned>>

\* one pass of the loop over the nested ids: PRDHandler.finalize line
\* 1113-1139 sets a REQ to NEW; TaskPRDHandler.finalize line 624-664 sets a
\* TASK to NEW, then records it with the REQs its section implements
FinHookNested(p) ==
    /\ pc[p] = "fin_nested"
    /\ LET f == floc[p]
           nid == f.htodo[1]
           led1 == UpdateStatusInIndex(GetAllArtifacts, nid, "NEW")
           reqs == ExtractReqImplementations(ExtractTaskSection(f.hcontent, nid))
       IN  /\ ledger' = led1
           /\ files' = IF f.hook = "PRD" THEN SectionStatusContent(led1, files, nid, "NEW").files
                       ELSE UpdateReqsWithImplementingTask(led1,
                                TaskStatusContent(led1, files, nid, "NEW").files, reqs, nid)
           /\ floc' = [floc EXCEPT ![p].htodo = Tail(f.htodo)]
           /\ pc' = [pc EXCEPT ![p] = IF Len(f.htodo) = 1 THEN "fin_return" ELSE "fin_nested"]
    /\ UNCHANGED <<indexExists, lockHolder, loc, ncalls, returned,
                   hdoc, hcall, sreturned, drafts, storeInRepo, freturned>>

\* line 1448-1454 and 1504-1515: the result, with the state it returns in
FinReturn(p) ==
    /\ pc[p] = "fin_return"
    /\ LET f == floc[p]
       IN  freturned' = Append(freturned,
               [name |-> f.dname, suffix |-> f.suffix, draft |-> f.content, mains |-> f.mains,
                nested |-> f.nested, mapping |-> f.mapping, written |-> f.written, target |-> f.target,
                main_id |-> f.main_id, hook |-> f.hook, herror |-> f.herror,
                before |-> f.before, after |-> GetAllArtifacts, files |-> files,
                gone |-> \A i \in 1..Len(Store) : Store[i].name # f.dname])
    /\ pc' = [pc EXCEPT ![p] = "idle"]
    /\ floc' = [floc EXCEPT ![p] = NoFin]
    /\ UNCHANGED <<indexExists, ledger, lockHolder, loc, ncalls, returned,
                   hdoc, hcall, files, sreturned, drafts, storeInRepo>>

\* --- SpecFinalize: finalize_provisional_file calls on a store of one or two
\* drafts; the repository is empty, or holds PRD-1 with the section of REQ-2
\* and TASKPRD-3, which PRD-1 is referenced by, allocated in this order by
\* get_artifact_id
FinRepoFile ==
    File(Aid("PRD", 1), TRUE,
         << HeadLine(1, Aid("PRD", 1), << Ch("Product") >>),
            HdrLine("STATUS", << SP, Ch("NEW") >>),
            HdrLine("REFERENCED_BY", << SP, Aid("TASKPRD", 3) >>),
            BlankLine,
            HeadLine(3, Aid("REQ", 2), << Ch("Login") >>),
            HdrLine("STATUS", << SP, Ch("NEW") >>),
            BlankLine,
            TextLine(<< Ch("body") >>) >>)

FinOldPlan ==
    File(Aid("TASKPRD", 3), FALSE,
         << HeadLine(1, Aid("TASKPRD", 3), << Ch("Old") >>),
            HdrLine("STATUS", << SP, Ch("NEW") >>),
            MarkerLine("Parent", << SP, Aid("PRD", 1), Ch(":"), SP, Ch("Product") >>) >>)

FinLedger ==
    << Entry(1, Aid("PRD", 1), << Ch("Product") >>, "NEW", TRUE, NoId),
       Entry(2, Aid("REQ", 2), << Ch("Login") >>, "NEW", FALSE, Aid("PRD", 1)),
       Entry(3, Aid("TASKPRD", 3), << Ch("Old") >>, "NEW", TRUE, NoId) >>

\* "# X-PROVISIONAL1: Foo", a mention of the token, in upper or lower case,
\* and the step line "[ ] PROVISIONAL1.1 do"
MainDraft(X, lc) ==
    << HeadLine(1, Prov(X, 1, FALSE), << Ch("Foo") >>),
       BlankLine,
       TextLine(<< Ch("see"), SP, Prov(X, 1, lc) >>),
       TextLine(<< Ch("[ ]"), SP, StepRef(1, ".1", TRUE), SP, Ch("do") >>),
       BlankLine >>

\* a TASKPRD with one TASK section that implements REQ-2
TaskPrdDraft(parent) ==
    << HeadLine(1, Prov("TASKPRD", 1, FALSE), << Ch("Plan") >>) >>
    \o (IF parent
        THEN << MarkerLine("Parent", << SP, Aid("PRD", 1), Ch(":"), SP, Ch("Product") >>) >>
        ELSE << >>)
    \o << BlankLine,
          HeadLine(3, Prov("TASK", 1, FALSE), << Ch("Do"), SP, Ch("it") >>),
          MarkerLine("Implements", << SP, Aid("REQ", 2) >>),
          TextLine(<< Ch("steps") >>) >>

\* a PRD with one REQ section
PrdReqDraft ==
    << HeadLine(1, Prov("PRD", 1, FALSE), << Ch("Foo") >>),
       BlankLine,
       HeadLine(3, Prov("REQ", 1, FALSE), << Ch("Signup") >>),
       TextLine(<< Ch("body") >>) >>

\* a PRD with a REQ in a '##' heading and two REQ sections, numbered 10 and 2
PrdManyDraft ==
    << HeadLine(1, Prov("PRD", 2, FALSE), << Ch("Foo") >>),
       BlankLine,
       HeadLine(2, Prov("REQ", 3, FALSE), << Ch("Top") >>),
       TextLine(<< Ch("body") >>),
       HeadLine(3, Prov("REQ", 2, FALSE), << Ch("Signup") >>),
       TextLine(<< Ch("body") >>),
       HeadLine(3, Prov("REQ", 10, FALSE), << Ch("Login") >>),
       TextLine(<< Ch("body") >>) >>

\* a PRD with REQ-PROVISIONAL10 in a '##' heading and the section of
\* REQ-PROVISIONAL1
PrdPrefixDraft ==
    << HeadLine(1, Prov("PRD", 1, FALSE), << Ch("Foo") >>),
       BlankLine,
       HeadLine(2, Prov("REQ", 10, FALSE), << Ch("Top") >>),
       TextLine(<< Ch("body") >>),
       HeadLine(3, Prov("REQ", 1, FALSE), << Ch("Signup") >>),
       TextLine(<< Ch("body") >>) >>

\* the contents of the drafts with tokens, each with the type of its main
\* token; one has a line of text above the title
DraftContents ==
    { [main |-> X, lines |-> MainDraft(X, FALSE)] : X \in {"PRD", "REQ", "TASKPRD", "TASK"} }
    \cup { [main |-> X, lines |-> MainDraft(X, TRUE)] : X \in {"PRD", "TASK"} }
    \cup { [main |-> "PRD", lines |-> << TextLine(<< Ch("draft") >>) >> \o MainDraft("PRD", FALSE)] }
    \cup { [main |-> "TASKPRD", lines |-> TaskPrdDraft(b)] : b \in BOOLEAN }
    \cup { [main |-> "PRD", lines |-> PrdReqDraft], [main |-> "PRD", lines |-> PrdManyDraft],
           [main |-> "PRD", lines |-> PrdPrefixDraft] }

\* the file names of a draft of main type X: "X-PROVISIONAL1.md", the same in
\* lower case, "plan.md", and the name of another type
DraftNames(X) ==
    { Prov(X, 1, FALSE), Prov(X, 1, TRUE), Ch("plan") }
    \cup (IF X = "TASKPRD" THEN { Prov("PRD", 1, FALSE) } ELSE {})

\* the draft files, one of them without a token
DraftPool ==
    UNION { { File(n, FALSE, c.lines) : n \in DraftNames(c.main) } : c \in DraftContents }
    \cup { File(Ch("plan"), FALSE,
                 << HeadLine(1, Ch("Notes"), << Ch("Foo") >>), TextLine(<< Ch("text") >>) >>) }

\* the store holds one draft, or one draft and "notes.md"
DraftStores ==
    { << d >> : d \in DraftPool }
    \cup { << d, File(Ch("notes"), FALSE, MainDraft("TASK", FALSE)) >> : d \in DraftPool }

InitFinalize ==
    /\ IndexIdle
    /\ hdoc = << >> /\ hcall = NoCall /\ sreturned = << >>
    /\ floc = [p \in Procs |-> NoFin] /\ freturned = << >>
    /\ storeInRepo \in BOOLEAN
    /\ indexExists \in BOOLEAN
    /\ ledger = IF indexExists THEN FinLedger ELSE << >>
    /\ \E ds \in DraftStores :
          LET repo == IF indexExists THEN << FinRepoFile, FinOldPlan >> ELSE << >>
          IN  /\ files = IF storeInRepo THEN repo \o ds ELSE repo
              /\ drafts = IF storeInRepo THEN << >> ELSE ds

NextFinalize ==
    \E p \in Procs :
        \/ \E d \in 1..Len(Store), sfx \in BOOLEAN : FinStart(p, d, sfx)
        \/ FinAllocate(p)
        \/ \E pos \in 1..(Len(files) + 1) : FinWrite(p, pos)
        \/ FinUnlink(p) \/ FinHook(p) \/ FinHookNested(p) \/ FinReturn(p)

SpecFinalize == InitFinalize /\ [][NextFinalize]_vars

\* -------------------------------------------------------------------------
\* Part V: the Header Codec on contents of any layout
\*
\* update_managed_header applied to contents whose header lines are in
\* another order than the registry's, are separated by blank lines, are
\* followed by lines that look like header lines, or are missing; the values
\* passed include the empty string and a value with a leading blank.
\* -------------------------------------------------------------------------
CodecDocs ==
    LET T == HeadLine(3, Aid("REQ", 1), << Ch("Login") >>)
        St == HdrLine("STATUS", << SP, Ch("NEW") >>)
        It == HdrLine("IMPLEMENTING_TASKS", << SP, Ch("A") >>)
        Rf == HdrLine("REFERENCED_BY", << SP, Ch("A") >>)
        Body == TextLine(<< Ch("body") >>)
    IN  { << T >>, << T, Body >>, << T, St, Body >>, << T, It, St, Body >>,
          << T, St, BlankLine, Body >>,
          << T, BlankLine, It, St, BlankLine, Body, BlankLine, TextLine(<< Ch("more") >>), BlankLine >>,
          << T, Rf, St, Body >>,
          << Body, St >>,
          << HeadLine(1, Aid("PRD", 1), << Ch("Product") >>), Rf, St, BlankLine, Body >> }

\* the header_updates a caller passes: one key each
CodecUpdates ==
    { [key |-> "STATUS", value |-> v] : v \in { << Ch("ACTIVE") >>, << Ch("NEW") >>, << >>, << SP, Ch("NEW") >> } }
    \cup { [key |-> "IMPLEMENTING_TASKS", value |-> << Ch("B") >>] }

InitCodec ==
    /\ hdoc \in CodecDocs /\ hcall = NoCall /\ files = << >> /\ sreturned = << >> /\ FinIdle
    /\ indexExists = TRUE /\ ledger = << >> /\ IndexIdle

NextCodec == \E u \in CodecUpdates : HeaderUpdate(u.key, u.value)

SpecCodec == InitCodec /\ [][NextCodec]_vars

\* -------------------------------------------------------------------------
\* Part VI: operations on the content of artifacts
\* (ArtifactManager.get_artifact, update_artifact, resolve_artifact_identifier,
\* the handlers' mark_step_done, and UACCHandler / SACCHandler.update_status)
\*
\* The calls of SpecContent come one after the other, each run in one piece.
\* A step line "[ ] n text" / "[x] n text" is a line of kind "step" whose lvl
\* is 1 when checked, whose key is the step number and whose val is the text.
\* -------------------------------------------------------------------------
MaxContentCalls == 2

StepLine(done, n, desc) ==
    [k |-> "step", lvl |-> IF done THEN 1 ELSE 0, id |-> NoId, key |-> n, val |-> desc]

\* the types whose registry entry has 'can_tool_update': false
NoToolUpdateTypes == {"TASKPRD", "SACC"}

\* mutant: every type may be updated by the tools
CanToolUpdateAlways(t) == TRUE

\* can_tool_update
CanToolUpdate(t) == t \notin NoToolUpdateTypes

\* has_capability(type, "has_steps")
HasSteps(t) == t \in {"TASK", "UACC", "SACC"}

\* the element of a one-element set: Only({ F(x) : x \in {e} }) is F(e) with e
\* computed once, as the code computes a local variable once
Only(S) == CHOOSE x \in S : TRUE

\* new_content.lstrip("\n"): no blank line at the start
RECURSIVE LStripLines(_)
LStripLines(c) == IF Len(c) > 0 /\ c[1].k = "blank" THEN LStripLines(Tail(c)) ELSE c

\* _update_file_artifact: "ID_*.md" first, then "ID.md"; write_text(new_content)
UpdateFileArtifact(fs, aid, newc) ==
    LET r == GetFileArtifact(fs, aid)
    IN  IF ~r.ok THEN [ok |-> FALSE, error |-> "no_file", files |-> fs]
        ELSE [ok |-> TRUE, error |-> "", files |-> [fs EXCEPT ![r.file].lines = newc]]

\* update_artifact (content), artifact_manager.py line 343-395
UpdateArtifact(led, fs, ident, newc) ==
    LET aid == ResolveArtifactIdentifier(led, ident)
        e == GetArtifactById(led, aid)
        first == LStripLines(newc)
        prepared == IF Len(first) > 0 /\ StartsWithHeading(first[1], aid) THEN newc
                    ELSE << HeadLine(3, aid, IF led[e].name = NoVal THEN << >> ELSE << Ch(led[e].name) >>) >>
                         \o first
    IN  IF aid = NoId \/ e = 0 THEN [ok |-> FALSE, error |-> "not_found", files |-> fs]
        ELSE IF ~CanToolUpdate(aid.t) THEN [ok |-> FALSE, error |-> "update_not_allowed", files |-> fs]
        ELSE IF led[e].is_file THEN UpdateFileArtifact(fs, aid, newc)
        ELSE Only({ [ok |-> w.ok, error |-> IF w.ok THEN "" ELSE "section_not_found", files |-> w.files] :
                    w \in { UpdateNonFileArtifact(fs, aid, prepared) } })

\* mark_step_done, artifact_type_handler.py line 1377-1443, behind the
\* has_steps test of the tool (server.py line 486-529)
MarkStepDone(led, fs, aid, step) ==
    LET Hits(c) == { i \in 1..Len(c) : /\ c[i].k = "step" /\ c[i].lvl = 0
                                       /\ c[i].key = step /\ Len(c[i].val) > 0 }
        Marked(r, hits) ==
            IF ~r.ok THEN [ok |-> FALSE, error |-> "failed_to_retrieve", files |-> fs]
            ELSE IF hits = {} THEN [ok |-> FALSE, error |-> "step_not_found", files |-> fs]
            ELSE Only({ [ok |-> w.ok, error |-> IF w.ok THEN "" ELSE "failed_to_update", files |-> w.files] :
                        w \in { UpdateNonFileArtifact(fs, aid, [r.content EXCEPT ![MinOf(hits)].lvl = 1]) } })
    IN  IF ~HasSteps(aid.t) THEN [ok |-> FALSE, error |-> "unsupported", files |-> fs]
        ELSE Only({ Only({ Marked(r, hits) : hits \in { Hits(r.content) } }) :
                    r \in { GetArtifact(led, fs, aid) } })

\* re.sub(r'\s*\([^)]*\)$', '', test): the last parenthesis and the blanks
\* before it taken off
WithoutStatus(test) ==
    LET n == Len(test)
        opens == { i \in 1..(n - 1) : test[i] = Ch("(") /\ \A j \in (i + 1)..(n - 1) : test[j] # Ch(")") }
    IN  IF n = 0 \/ test[n] # Ch(")") \/ opens = {} THEN test
        ELSE RStrip(SubSeq(test, 1, MinOf(opens) - 1))

\* _update_test_status_in_list
UpdateTestStatusInList(covering, aid, status) ==
    LET tests == StripAll(Split(covering, COMMA))
    IN  Join([i \in 1..Len(tests) |->
                 IF Len(tests[i]) > 0 /\ TokenContains(tests[i][1], aid) /\ tests[i][1].t = aid.t
                 THEN WithoutStatus(tests[i]) \o << SP, Ch("("), Ch(status), Ch(")") >>
                 ELSE tests[i]], COMMA)

\* _update_covering_tests line 1800-1850: the pass over one REQ of the index
UpdateReqCoveringTests(led, fs, req, aid, status) ==
    LET CoveringOf(p) ==
            IF "COVERING_TESTS" \in DOMAIN p.headers THEN p.headers["COVERING_TESTS"] ELSE << >>
        Rewritten(p, info, covering, updated) ==
            IF Len(covering) = 0 \/ ~(\E i \in 1..Len(covering) : TokenContains(covering[i], aid))
            THEN fs
            ELSE IF updated = covering \/ info = NoId THEN fs
            ELSE UpdateArtifact(led, fs, req,
                                RebuildContent(p, Put(p.headers, "COVERING_TESTS", updated), info.t)).files
        Parsed(r, p) ==
            Only({ Rewritten(p, ExtractArtifactTypeAndId(r.content), covering,
                             UpdateTestStatusInList(covering, aid, status)) :
                   covering \in { CoveringOf(p) } })
    IN  Only({ IF ~r.ok THEN fs
               ELSE Only({ Parsed(r, p) : p \in { ParseManagedHeaders(r.content) } }) :
               r \in { GetArtifact(led, fs, req) } })

\* _update_covering_tests: the REQ entries of the index, in index order
RECURSIVE UpdateCoveringTests(_, _, _, _, _)
UpdateCoveringTests(led, fs, i, aid, status) ==
    IF i > Len(led) THEN fs
    ELSE Only({ UpdateCoveringTests(led, f, i + 1, aid, status) :
                f \in { IF led[i].artifact_id.t = "REQ" /\ ~led[i].artifact_id.lc /\ ~led[i].artifact_id.pv
                        THEN UpdateReqCoveringTests(led, fs, led[i].artifact_id, aid, status)
                        ELSE fs } })

\* UACCHandler / SACCHandler.update_status: index, content, covering tests
TestUpdateStatus(led, fs, aid, status) ==
    LET Content(led1) ==
            Only({ [ok |-> c.ok, ledger |-> led1,
                    files |-> UpdateCoveringTests(led1, c.files, 1, aid, status)] :
                   c \in { SectionStatusContent(led1, fs, aid, status) } })
    IN  Only({ Content(led1) : led1 \in { UpdateStatusInIndex(led, aid, status) } })

\* the result of a call, with the files and the ledger the call found
CRet(op, ident, arg, r) ==
    sreturned' = Append(sreturned,
        [op |-> op, ident |-> ident, arg |-> arg, ok |-> r.ok, error |-> r.error,
         aid |-> ResolveArtifactIdentifier(GetAllArtifacts, ident), content |-> r.content,
         before |-> files, led |-> ledger])

\* the tool resolve_artifact_identifier serves
ResolveCall(ident) ==
    /\ Len(sreturned) < MaxContentCalls
    /\ LET aid == ResolveArtifactIdentifier(GetAllArtifacts, ident)
       IN  CRet("resolve", ident, "", [ok |-> aid # NoId, error |-> "", content |-> << >>])
    /\ UNCHANGED <<indexExists, ledger, lockHolder, pc, loc, ncalls, returned, hdoc, hcall, files, finvars>>

\* get_artifact, artifact_manager.py line 297-341
GetCall(ident) ==
    /\ Len(sreturned) < MaxContentCalls
    /\ \E aid \in { ResolveArtifactIdentifier(GetAllArtifacts, ident) },
          r \in { GetArtifact(GetAllArtifacts, files, ident) } :
           CRet("get", ident, "",
                [ok |-> r.ok, content |-> r.content,
                 error |-> IF r.ok THEN "" ELSE IF aid = NoId THEN "not_found"
                           ELSE IF ledger[GetArtifactById(ledger, aid)].is_file THEN "no_file"
                           ELSE "section_not_found"])
    /\ UNCHANGED <<indexExists, ledger, lockHolder, pc, loc, ncalls, returned, hdoc, hcall, files, finvars>>

UpdateCall(ident, newc) ==
    /\ Len(sreturned) < MaxContentCalls
    /\ \E r \in { UpdateArtifact(GetAllArtifacts, files, ident, newc) } :
           /\ files' = r.files
           /\ CRet("update", ident, newc, [ok |-> r.ok, error |-> r.error, content |-> << >>])
    /\ UNCHANGED <<indexExists, ledger, lockHolder, pc, loc, ncalls, returned, hdoc, hcall, finvars>>

MarkCall(aid, step) ==
    /\ Len(sreturned) < MaxContentCalls
    /\ \E r \in { MarkStepDone(GetAllArtifacts, files, aid, step) } :
           /\ files' = r.files
           /\ CRet("mark", aid, step, [ok |-> r.ok, error |-> r.error, content |-> << >>])
    /\ UNCHANGED <<indexExists, ledger, lockHolder, pc, loc, ncalls, returned, hdoc, hcall, finvars>>

\* update_artifact_status on a UACC or SACC artifact: artifact_manager.py line
\* 1544-1565, then the handler's update_status
TestStatusCall(ident, status) ==
    /\ Len(sreturned) < MaxContentCalls
    /\ \E aid \in { ResolveArtifactIdentifier(GetAllArtifacts, ident) } :
           IF aid = NoId \/ ~IsValidStatusForType(status, aid.t)
           THEN /\ CRet("status", ident, status,
                        [ok |-> FALSE, content |-> << >>,
                         error |-> IF aid = NoId THEN "not_found" ELSE "invalid_status"])
                /\ UNCHANGED <<ledger, files>>
           ELSE /\ aid.t \in {"UACC", "SACC"}
                /\ \E r \in { TestUpdateStatus(GetAllArtifacts, files, aid, StatusUpper(status)) } :
                       /\ ledger' = r.ledger /\ files' = r.files
                       /\ CRet("status", ident, StatusUpper(status),
                               [ok |-> r.ok, error |-> IF r.ok THEN "" ELSE "content", content |-> << >>])
    /\ UNCHANGED <<indexExists, lockHolder, pc, loc, ncalls, returned, hdoc, hcall, finvars>>

\* --- SpecContent: a repository whose index the allocator wrote (ids 1 to
\* 10): a PRD file with two REQ sections, a TASKPRD file with a TASK and a
\* SACC section, and a file of tests with the sections of UACC-1 and UACC-10;
\* REQ-8 and PRD-9 are allocated and have no content yet.
Covering(a, b) ==
    HdrLine("COVERING_TESTS", << SP, a, SP, Ch("("), Ch("NEW"), Ch(")"), COMMA,
                                 SP, b, SP, Ch("("), Ch("NEW"), Ch(")") >>)

ContentRepo ==
    LET St == HdrLine("STATUS", << SP, Ch("NEW") >>)
    IN  << File(Aid("PRD", 2), TRUE,
                << HeadLine(1, Aid("PRD", 2), << Ch("Product") >>), St, BlankLine,
                   TextLine(<< Ch("intro") >>),
                   HeadLine(3, Aid("REQ", 3), << Ch("Login") >>), St,
                   Covering(Aid("UACC", 1), Aid("UACC", 10)), BlankLine,
                   TextLine(<< Ch("body") >>),
                   HeadLine(3, Aid("REQ", 4), << Ch("Logout") >>), St,
                   Covering(Aid("SACC", 7), Aid("UACC", 10)), BlankLine,
                   TextLine(<< Ch("body") >>) >>),
           File(Aid("TASKPRD", 5), TRUE,
                << HeadLine(1, Aid("TASKPRD", 5), << Ch("Plan") >>), St, BlankLine,
                   HeadLine(3, Aid("TASK", 6), << Ch("Do") >>), St, BlankLine,
                   StepLine(FALSE, "1", << Ch("first") >>),
                   StepLine(FALSE, "2", << Ch("second") >>), BlankLine,
                   HeadLine(3, Aid("SACC", 7), << Ch("Sys") >>), St, BlankLine,
                   TextLine(<< Ch("body") >>) >>),
           File(NoId, FALSE,
                << TextLine(<< Ch("tests") >>), BlankLine,
                   HeadLine(3, Aid("UACC", 1), << Ch("Smoke") >>), St, BlankLine,
                   StepLine(FALSE, "1", << Ch("run") >>), BlankLine,
                   HeadLine(3, Aid("UACC", 10), << Ch("Deep") >>), St, BlankLine,
                   StepLine(FALSE, "1", << Ch("dig") >>) >>) >>

ContentLedger ==
    << Entry(1, Aid("UACC", 1), "Smoke", NoVal, FALSE, NoVal),
       Entry(2, Aid("PRD", 2), "Product", NoVal, TRUE, NoVal),
       Entry(3, Aid("REQ", 3), "Login", NoVal, FALSE, "PRD-2"),
       Entry(4, Aid("REQ", 4), "Logout", NoVal, FALSE, "PRD-2"),
       Entry(5, Aid("TASKPRD", 5), "Plan", NoVal, TRUE, NoVal),
       Entry(6, Aid("TASK", 6), "Do", NoVal, FALSE, "TASKPRD-5"),
       Entry(7, Aid("SACC", 7), "Sys", NoVal, FALSE, NoVal),
       Entry(8, Aid("REQ", 8), NoVal, NoVal, FALSE, "PRD-2"),
       Entry(9, Aid("PRD", 9), "Other", NoVal, TRUE, NoVal),
       Entry(10, Aid("UACC", 10), "Deep", NoVal, FALSE, NoVal) >>

\* identifiers the callers pass: ids in either letter case, doc ids, "01",
\* and identifiers of no entry
ContentIdents ==
    { Aid("UACC", 1), Aid("UACC", 10), [Aid("UACC", 10) EXCEPT !.lc = TRUE], Aid("REQ", 3),
      Aid("PRD", 2), [Aid("REQ", 4) EXCEPT !.lc = TRUE], Aid("REQ", 8), Aid("PRD", 9), Aid("REQ", 11),
      Num(1, FALSE), Num(10, FALSE), Num(1, TRUE), Num(11, FALSE) }

\* new contents: with the heading of the artifact, and without a heading
NewContents(aid) ==
    { << HeadLine(3, aid, << Ch("Renamed") >>), TextLine(<< Ch("new") >>), BlankLine >>,
      << BlankLine, TextLine(<< Ch("new") >>) >> }

UpdateCalls ==
    UNION { { <<a, c>> : c \in NewContents(a) } :
              a \in { Aid("UACC", 1), Aid("UACC", 10), Aid("REQ", 3), Aid("REQ", 8),
                      Aid("SACC", 7), Aid("REQ", 11) } }
    \cup { <<a, << HeadLine(1, a, << Ch("Renamed") >>), TextLine(<< Ch("new") >>) >> >> :
              a \in { Aid("PRD", 2), Aid("PRD", 9), Aid("TASKPRD", 5) } }

MarkCalls ==
    { <<Aid("TASK", 6), "1">>, <<Aid("TASK", 6), "3">>, <<Aid("UACC", 1), "1">>,
      <<Aid("UACC", 10), "1">>, <<Aid("REQ", 3), "1">> }

TestStatusCalls ==
    { <<Aid("UACC", 1), "ACTIVE">>, <<Aid("UACC", 10), "active">>, <<Aid("SACC", 7), "COMPLETED">>,
      <<Aid("UACC", 10), "ARCHIVED">>, <<Aid("UACC", 11), "ACTIVE">> }

InitContent ==
    /\ ledger = ContentLedger
    /\ files = ContentRepo
    /\ indexExists = TRUE /\ IndexIdle
    /\ hdoc = << >> /\ hcall = NoCall /\ sreturned = << >> /\ FinIdle

NextContent ==
    \/ \E ident \in ContentIdents : ResolveCall(ident)
    \/ \E ident \in ContentIdents : GetCall(ident)
    \/ \E c \in UpdateCalls : UpdateCall(c[1], c[2])
    \/ \E c \in MarkCalls : MarkCall(c[1], c[2])
    \/ \E c \in TestStatusCalls : TestStatusCall(c[1], c[2])

SpecContent == InitContent /\ [][NextContent]_vars

\* --- SpecResolve: resolve_artifact_identifier on the ledgers that
\* add_artifact calls build, with ids in either letter case
ResolveIdents == IdPool \cup { Num(1, FALSE), Num(2, FALSE), Num(1, TRUE), Num(3, FALSE) }

NextResolve ==
    \/ NextAdd
    \/ \E ident \in ResolveIdents : ResolveCall(ident)

SpecResolve == InitAdd /\ [][NextResolve]_vars

\* --- SpecUpdate: index update_artifact calls, one after the other, on the
\* ledger of SpecContent
\* ArtifactIndexManager.update_artifact run in one piece
IndexUpdateArtifact(exists, led, aid, f) ==
    IF ~exists \/ FirstMatch(led, aid) = 0 THEN [ok |-> FALSE, ledger |-> led]
    ELSE [ok |-> TRUE, ledger |-> UpdatedLines(led, aid, f)]

IndexUpdateCall(aid, f) ==
    /\ Len(sreturned) < MaxContentCalls
    /\ LET r == IndexUpdateArtifact(indexExists, ledger, aid, f)
       IN  /\ ledger' = r.ledger
           /\ CRet("index_update", aid, f, [ok |-> r.ok, error |-> "", content |-> << >>])
    /\ UNCHANGED <<indexExists, lockHolder, pc, loc, ncalls, returned, hdoc, hcall, files, finvars>>

UpdateFieldSets ==
    { [name |-> NoVal, status |-> "ACTIVE"], [name |-> "Renamed", status |-> NoVal],
      [name |-> NoVal, status |-> NoVal, is_file |-> TRUE],
      [name |-> NoVal, status |-> NoVal, parent |-> "PRD-9"],
      [name |-> "Renamed", status |-> "COMPLETED", is_file |-> FALSE, parent |-> "PRD-9"] }

NextUpdate ==
    \E aid \in { Aid("REQ", 3), [Aid("REQ", 4) EXCEPT !.lc = TRUE], Aid("PRD", 2), Aid("REQ", 11) },
       f \in UpdateFieldSets : IndexUpdateCall(aid, f)

SpecUpdate == InitContent /\ [][NextUpdate]_vars

\* --- SpecTaskStatus: update_artifact_status calls on TASK artifacts, one
\* after the other, on a repository whose index the allocator wrote (ids 1 to
\* 10): a PRD file with the sections of REQ-3 and REQ-4, a plan with the
\* sections of TASK-1 and TASK-6, and a later plan with the section of
\* TASK-10.  rglob yields the files in directory order: both orders of the two
\* plans are drawn.
MaxTaskCalls == 3

\* TASKHandler.update_status run alone: update_status_in_index, then
\* update_status_content
TaskUpdateStatus(led, fs, aid, status) ==
    LET Content(led1) ==
            Only({ [ok |-> c.ok, ledger |-> led1, files |-> c.files] :
                   c \in { TaskStatusContent(led1, fs, aid, status) } })
    IN  Only({ Content(led1) : led1 \in { UpdateStatusInIndex(led, aid, status) } })

\* update_artifact_status on a TASK artifact: artifact_manager.py line
\* 1544-1565, then the handler's update_status
TaskStatusCall(ident, status) ==
    /\ Len(sreturned) < MaxTaskCalls
    /\ \E aid \in { ResolveArtifactIdentifier(GetAllArtifacts, ident) } :
           IF aid = NoId \/ ~IsValidStatusForType(status, aid.t)
           THEN /\ CRet("status", ident, status,
                        [ok |-> FALSE, content |-> << >>,
                         error |-> IF aid = NoId THEN "not_found" ELSE "invalid_status"])
                /\ UNCHANGED <<ledger, files>>
           ELSE /\ aid.t = "TASK"
                /\ \E r \in { TaskUpdateStatus(GetAllArtifacts, files, aid, StatusUpper(status)) } :
                       /\ ledger' = r.ledger /\ files' = r.files
                       /\ CRet("status", ident, StatusUpper(status),
                               [ok |-> r.ok, error |-> IF r.ok THEN "" ELSE "content", content |-> << >>])
    /\ UNCHANGED <<indexExists, lockHolder, pc, loc, ncalls, returned, hdoc, hcall, finvars>>

TaskSection(task, name, reqs) ==
    << HeadLine(3, task, << Ch(name) >>),
       HdrLine("STATUS", << SP, Ch("NEW") >>),
       MarkerLine("Implements", reqs),
       BlankLine,
       TextLine(<< Ch("steps") >>) >>

TaskPrdFile ==
    File(Aid("PRD", 2), FALSE,
         << HeadLine(1, Aid("PRD", 2), << Ch("Product") >>),
            HdrLine("STATUS", << SP, Ch("NEW") >>), BlankLine,
            HeadLine(3, Aid("REQ", 3), << Ch("Login") >>),
            HdrLine("STATUS", << SP, Ch("NEW") >>),
            HdrLine("IMPLEMENTING_TASKS",
                    << SP, Aid("TASK", 1), SP, Ch("("), Ch("NEW"), Ch(")"), COMMA,
                       Aid("TASK", 6), SP, Ch("("), Ch("NEW"), Ch(")") >>),
            BlankLine,
            TextLine(<< Ch("body") >>), BlankLine,
            HeadLine(3, Aid("REQ", 4), << Ch("Logout") >>),
            HdrLine("STATUS", << SP, Ch("NEW") >>),
            HdrLine("IMPLEMENTING_TASKS",
                    << SP, Aid("TASK", 10), SP, Ch("("), Ch("NEW"), Ch(")") >>),
            BlankLine,
            TextLine(<< Ch("body") >>) >>)

TaskPlanFile ==
    File(Aid("TASKPRD", 5), FALSE,
         << HeadLine(1, Aid("TASKPRD", 5), << Ch("Plan") >>),
            HdrLine("STATUS", << SP, Ch("NEW") >>), BlankLine >>
         \o TaskSection(Aid("TASK", 1), "One", << SP, Aid("REQ", 3) >>) \o << BlankLine >>
         \o TaskSection(Aid("TASK", 6), "Six", << SP, Aid("REQ", 3), COMMA, SP, Aid("REQ", 4) >>))

TaskLaterPlanFile ==
    File(Aid("TASKPRD", 9), FALSE,
         << HeadLine(1, Aid("TASKPRD", 9), << Ch("Later") >>),
            HdrLine("STATUS", << SP, Ch("NEW") >>), BlankLine >>
         \o TaskSection(Aid("TASK", 10), "Ten", << SP, Aid("REQ", 4) >>))

TaskLedger ==
    << Entry(1, Aid("TASK", 1), "One", "NEW", FALSE, NoVal),
       Entry(2, Aid("PRD", 2), "Product", "NEW", TRUE, NoVal),
       Entry(3, Aid("REQ", 3), "Login", "NEW", FALSE, "PRD-2"),
       Entry(4, Aid("REQ", 4), "Logout", "NEW", FALSE, "PRD-2"),
       Entry(5, Aid("TASKPRD", 5), "Plan", "NEW", TRUE, NoVal),
       Entry(6, Aid("TASK", 6), "Six", "NEW", FALSE, "TASKPRD-5"),
       Entry(7, Aid("REQ", 7), NoVal, NoVal, FALSE, "PRD-2"),
       Entry(8, Aid("TASK", 8), NoVal, NoVal, FALSE, "TASKPRD-5"),
       Entry(9, Aid("TASKPRD", 9), "Later", "NEW", TRUE, NoVal),
       Entry(10, Aid("TASK", 10), "Ten", "NEW", FALSE, "TASKPRD-9") >>

TaskStatusCalls ==
    { <<t, s>> : t \in { Aid("TASK", 1), Aid("TASK", 6), Aid("TASK", 10) },
                 s \in { "ACTIVE", "COMPLETED" } }
    \cup { <<Aid("TASK", 6), "active">>, <<Aid("TASK", 6), "ARCHIVED">>,
           <<Aid("TASK", 8), "ACTIVE">>, <<Aid("TASK", 11), "ACTIVE">> }

InitTaskStatus ==
    /\ ledger = TaskLedger
    /\ files \in { << TaskPrdFile, TaskPlanFile, TaskLaterPlanFile >>,
                   << TaskPrdFile, TaskLaterPlanFile, TaskPlanFile >> }
    /\ indexExists = TRUE /\ IndexIdle
    /\ hdoc = << >> /\ hcall = NoCall /\ sreturned = << >> /\ FinIdle

NextTaskStatus == \E c \in TaskStatusCalls : TaskStatusCall(c[1], c[2])

SpecTaskStatus == InitTaskStatus /\ [][NextTaskStatus]_vars


\* --- SpecUpdateRace: update_artifact calls on section artifacts by
\* concurrent callers, on the repository of SpecContent.  No lock is taken:
\* the scan that finds the section, the second read of the file and the
\* write are separate file accesses, and other callers run between them.
MaxRaceCalls == 2

\* update_artifact calls started so far: those returned and those running
UpdateCallsStarted == Len(sreturned) + Cardinality({ q \in Procs : pc[q] # "idle" })

\* update_artifact line 360-391: the identifier resolved, the index entry
\* read, can_tool_update tested and the heading prepended when the new
\* content does not start with it (the section path)
UpStart(p, ident, newc) ==
    /\ pc[p] = "idle" /\ UpdateCallsStarted < MaxRaceCalls
    /\ \E aid \in { ResolveArtifactIdentifier(GetAllArtifacts, ident) } :
           IF aid = NoId \/ GetArtifactById(ledger, aid) = 0
           THEN /\ CRet("update", ident, newc, [ok |-> FALSE, error |-> "not_found", content |-> << >>])
                /\ UNCHANGED <<pc, loc>>
           ELSE IF ~CanToolUpdate(aid.t)
           THEN /\ CRet("update", ident, newc,
                        [ok |-> FALSE, error |-> "update_not_allowed", content |-> << >>])
                /\ UNCHANGED <<pc, loc>>
           ELSE /\ ~ledger[GetArtifactById(ledger, aid)].is_file
                /\ \E first \in { LStripLines(newc) }, e \in { GetArtifactById(ledger, aid) } :
                       loc' = [loc EXCEPT ![p] =
                                 [NoLoc EXCEPT !.op = "update", !.aid = aid,
                                    !.newc = IF Len(first) > 0 /\ StartsWithHeading(first[1], aid)
                                             THEN newc
                                             ELSE << HeadLine(3, aid, IF ledger[e].name = NoVal THEN << >>
                                                                      ELSE << Ch(ledger[e].name) >>) >>
                                                  \o first]]
                /\ pc' = [pc EXCEPT ![p] = "up_scan"]
                /\ UNCHANGED sreturned
    /\ UNCHANGED <<indexExists, ledger, lockHolder, ncalls, returned, hdoc, hcall, files, finvars>>

\* _update_non_file_artifact line 547-577: every file read in rglob order,
\* up to the first one with the heading; start_index and end_index
UpScan(p) ==
    /\ pc[p] = "up_scan"
    /\ \E f \in { FileWithSection(files, loc[p].aid) } :
           IF f = 0
           THEN /\ CRet("update", loc[p].aid, loc[p].newc,
                        [ok |-> FALSE, error |-> "section_not_found", content |-> << >>])
                /\ pc' = [pc EXCEPT ![p] = "idle"]
                /\ loc' = [loc EXCEPT ![p] = NoLoc]
           ELSE /\ \E st \in { SectionStart(files[f].lines, loc[p].aid) } :
                       loc' = [loc EXCEPT ![p].fidx = f, ![p].start = st,
                                          ![p].end = SectionEnd(files[f].lines, st, loc[p].aid)]
                /\ pc' = [pc EXCEPT ![p] = "up_reread"]
                /\ UNCHANGED sreturned
    /\ UNCHANGED <<indexExists, ledger, lockHolder, ncalls, returned, hdoc, hcall, files, finvars>>

\* _update_non_file_artifact line 586-587: found_file.read_text again
UpReread(p) ==
    /\ pc[p] = "up_reread"
    /\ loc' = [loc EXCEPT ![p].flines = files[loc[p].fidx].lines]
    /\ pc' = [pc EXCEPT ![p] = "up_write"]
    /\ UNCHANGED <<indexExists, ledger, lockHolder, ncalls, returned, docvars>>

\* _update_non_file_artifact line 590-603: the lines read are spliced at the
\* indices of the scan and written; the call returns success
UpWrite(p) ==
    /\ pc[p] = "up_write"
    /\ files' = [files EXCEPT ![loc[p].fidx].lines =
                    Splice(loc[p].flines, loc[p].start, loc[p].end, loc[p].newc)]
    /\ CRet("update", loc[p].aid, loc[p].newc, [ok |-> TRUE, error |-> "", content |-> << >>])
    /\ pc' = [pc EXCEPT ![p] = "idle"]
    /\ loc' = [loc EXCEPT ![p] = NoLoc]
    /\ UNCHANGED <<indexExists, ledger, lockHolder, ncalls, returned, hdoc, hcall, finvars>>

\* the calls drawn: the two sections of the PRD file, the section of the
\* plan, an entry without content, an id of no entry, a type that tools may
\* not update
RaceCalls ==
    UNION { { <<a, c>> : c \in NewContents(a) } :
              a \in { Aid("REQ", 3), Aid("REQ", 4), Aid("SACC", 7), Aid("REQ", 8), Aid("REQ", 11) } }
    \cup { <<Aid("TASK", 6), << TextLine(<< Ch("new") >>) >> >> }

NextUpdateRace ==
    \E p \in Procs :
        \/ \E c \in RaceCalls : UpStart(p, c[1], c[2])
        \/ UpScan(p) \/ UpReread(p) \/ UpWrite(p)

SpecUpdateRace == InitContent /\ [][NextUpdateRace]_vars


\* --- SpecAddFair: add_artifact calls with any ids, the exception exits
\* included, under a scheduler that lets every caller that can take a step
\* of add_artifact take one sooner or later
\* mutant: the exception leaves the try block without the finally clause
AddRaiseHolding(p) ==
    /\ pc[p] \in {"add_next", "add_append"}
    /\ lockHolder' = lockHolder
    /\ Ret(p, FALSE, 0, "OSError")
    /\ UNCHANGED <<docvars, indexExists, ledger, ncalls>>

\* line 277-304: get_next_doc_id, f.read or f.write raises inside the try
\* block (an I/O error): finally flock(LOCK_UN), and the exception leaves
\* add_artifact
AddRaise(p) ==
    /\ pc[p] \in {"add_next", "add_append"}
    /\ lockHolder' = 0
    /\ Ret(p, FALSE, 0, "OSError")
    /\ UNCHANGED <<docvars, indexExists, ledger, ncalls>>

\* the id the callers pass: a call that finds the entry of an earlier call
\* raises before it takes the lock, the calls that find none contend for it
FairIds == { Aid("REQ", 1) }

MaxFairCalls == 3

\* add_artifact calls started so far: those returned and those running
AddCallsStarted == Len(returned) + Cardinality({ q \in Procs : pc[q] # "idle" })

NextAddFair ==
    \E p \in Procs :
        \/ \E aid \in FairIds : AddCallsStarted < MaxFairCalls /\ StartAdd(p, aid)
        \/ AddSteps(p)
        \/ AddRaise(p)

SpecAddFair == InitAdd /\ [][NextAddFair]_vars /\ \A p \in Procs : WF_vars(AddSteps(p))


\* ------------------------------------------------------------------ claims
\* doc_ids that add_artifact has returned, in order of return
ReturnedDocIds == [i \in { j \in 1..Len(returned) : returned[j].op = "add" /\ returned[j].ok }
                     |-> returned[i].doc_id]

\* C1: the doc_ids returned by add_artifact calls with distinct ids on an
\* initially empty ledger are pairwise distinct and are exactly 1..n, n the
\* number of successful calls.
C1_DocIdsDistinctGapFree ==
    LET idx == DOMAIN ReturnedDocIds
    IN  /\ \A i, j \in idx : i # j => ReturnedDocIds[i] # ReturnedDocIds[j]
        /\ { ReturnedDocIds[i] : i \in idx } = 1..Cardinality(idx)

\* C2: no two entries of the ledger have artifact_ids equal ignoring case.
C2_ArtifactIdsUnique ==
    \A i, j \in 1..Len(ledger) :
        i # j => Upper(ledger[i].artifact_id) # Upper(ledger[j].artifact_id)

EntryKeys(led) == { <<led[i].doc_id, led[i].artifact_id>> : i \in 1..Len(led) }

\* C3: an entry that add_artifact appended stays in the ledger: every
\* (doc_id, artifact_id) of the ledger is in the ledger of the next state.
C3_EntriesNeverDeleted == [][EntryKeys(ledger) \subseteq EntryKeys(ledger')]_vars
\* the members of a comma-separated list value
Members(v) == StripAll(Split(v, COMMA))
NoDup(l) == \A i, j \in 1..Len(l) : i # j => l[i] # l[j]
Elems(l) == { l[i] : i \in 1..Len(l) }

\* C10: after an update of a list field the stored value lists the members it
\* had before, in their order, then the new members, and no member twice;
\* this includes the first update of content that has no value for the field.
C10_ListUnion ==
    (hcall.n > 0 /\ hcall.ok /\ HeaderKind(hcall.key) = "list") =>
        LET cur == Members(ParseManagedHeaders(hdoc).headers[hcall.key])
            old == IF hcall.had THEN Members(hcall.prev) ELSE << >>
        IN  /\ NoDup(cur)
            /\ Len(cur) >= Len(old) /\ SubSeq(cur, 1, Len(old)) = old
            /\ Elems(cur) = Elems(old) \cup Elems(Members(hcall.arg))
\* index write first, then the content: no content event before the index write
IndexBeforeContent(order) ==
    \A k \in 1..Len(order) : order[k] # "index_write" => \E j \in 1..(k - 1) : order[j] = "index_write"

\* C7: a status update through a handler writes the index before it touches
\* the content; when the index write succeeded and the content update failed
\* the index is not written again, the handler's result has success = false
\* and the content error is in its message.
C7_IndexFirstErrorInMessage ==
    /\ \A p \in Procs : IndexBeforeContent(loc[p].order)
    /\ \A i \in 1..Len(sreturned) :
          LET r == sreturned[i]
          IN  /\ IndexBeforeContent(r.order)
              /\ (r.iok /\ ~r.cok /\ Len(r.order) > 0) =>
                    /\ ~r.handler.success
                    /\ r.cmsg \in r.handler.message
                    /\ { k \in 1..Len(r.order) : r.order[k] = "index_write" } = {1}

\* C8: a status outside the valid statuses of the type is rejected with the
\* valid statuses listed and nothing read or written; a status inside is never
\* rejected as invalid, whatever the current status, and reaches the index.
C8_MembershipOnly ==
    \A i \in 1..Len(sreturned) :
        LET r == sreturned[i]
            valid == GetValidStatusesForType(r.ident.t)
        IN  r.error # {"not_found"} =>
              /\ StatusUpper(r.sarg) \notin valid =>
                    (~r.ok /\ r.error = {"invalid_status"} /\ r.valid_statuses = valid /\ r.order = << >>)
              /\ StatusUpper(r.sarg) \in valid =>
                    (r.error # {"invalid_status"} /\ Len(r.order) > 0 /\ r.order[1] = "index_write")

C8_Witness ==
    \E i, j \in 1..Len(sreturned) :
        /\ sreturned[i].error = {"invalid_status"}
        /\ sreturned[j].ok /\ sreturned[j].cur \notin {NoVal, StatusUpper(sreturned[j].sarg)}
        /\ sreturned[j].cur \notin GetValidStatusesForType(sreturned[j].ident.t)

IndexStatus(aid) == ledger[GetArtifactById(ledger, aid)].status
ContentStatus(aid) == ParseManagedHeaders(GetArtifact(ledger, files, aid).content).headers["STATUS"]

\* C9: once status updates of one artifact that all reported success have all
\* returned, the status of its index entry equals the STATUS of its content.
C9_IndexEqualsContent ==
    \A aid \in {Aid("REQ", 1), Aid("PRD", 1)} :
        (/\ \A p \in Procs : pc[p] = "idle"
         /\ Len(sreturned) > 0
         /\ \A i \in 1..Len(sreturned) : sreturned[i].ok /\ Upper(sreturned[i].ident) = aid)
        => ContentStatus(aid) = << Ch(IndexStatus(aid)) >>
\* C4: in the content a finalization wrote, no word reads, in any letter
\* case, as a provisional token that received a final id, and every place
\* where the draft had such a token now holds the token's final id.
C4_TokensReplacedEverywhere ==
    \A i \in 1..Len(freturned) :
        LET r == freturned[i]
            src == RStripLines(r.draft)
        IN  \A k \in 1..Len(r.mapping) :
               /\ \A tok \in ContentTokens(r.written) : Upper(tok) # r.mapping[k].prov
               /\ \A li \in 1..Len(src) : \A j \in 1..Len(LineTokens(src[li])) :
                     Upper(LineTokens(src[li])[j]) = r.mapping[k].prov
                        => LineTokens(r.written[li])[j] = r.mapping[k].final

\* C5: when a finalization of a draft with a main TASKPRD token and a nested
\* TASK token whose section implements REQ-r, an existing section artifact,
\* has returned, the index entry of the TASK has the TASKPRD's final id as
\* parent and is_file = false, the IMPLEMENTING_TASKS list of REQ-r names
\* the TASK's final id exactly once, and both index statuses are NEW.
C5_TaskPrdFinalized ==
    \A i \in 1..Len(freturned) :
        LET r == freturned[i]
            Implements(t) == Elems(ExtractReqImplementations(ExtractTaskSection(r.draft, t)))
            FinalOf(x) == r.mapping[MinOf({ k \in 1..Len(r.mapping) : r.mapping[k].prov = x })].final
            EntryOf(x) == r.after[FirstMatch(r.after, x)]
            Tasks(q) == ListMembers(ParseManagedHeaders(GetArtifact(r.after, r.files, q).content).headers,
                                    "IMPLEMENTING_TASKS")
        IN  \A m \in Elems(r.mains), t \in Elems(r.nested) :
               (/\ m.t = "TASKPRD" /\ t.t = "TASK"
                /\ Implements(t) # {}
                /\ \A q \in Implements(t) :
                      FirstMatch(r.before, q) # 0 /\ ~r.before[FirstMatch(r.before, q)].is_file)
               => /\ {m, t} \subseteq { r.mapping[k].prov : k \in 1..Len(r.mapping) }
                  /\ EntryOf(FinalOf(t)).parent = FinalOf(m) /\ ~EntryOf(FinalOf(t)).is_file
                  /\ \A q \in Implements(t) :
                        Cardinality({ j \in 1..Len(Tasks(q)) : CleanTask(Tasks(q)[j]) = << FinalOf(t) >> }) = 1
                  /\ EntryOf(FinalOf(m)).status = "NEW" /\ EntryOf(FinalOf(t)).status = "NEW"

\* C6: when a finalization of a draft whose only provisional token is the
\* token of a heading "# X-PROVISIONALk: Name" has returned, the ledger is
\* the ledger before it with one more entry, whose artifact_id has type X,
\* with is_file = true, no parent and the name "Name", and no file of the
\* draft's name is left in the provisional store.
C6_SingleMainFinalized ==
    \A i \in 1..Len(freturned) :
        LET r == freturned[i]
        IN  \A h \in 1..Len(r.draft) :
               (/\ r.draft[h].k = "head" /\ r.draft[h].lvl = 1
                /\ r.draft[h].id.pv /\ ~r.draft[h].id.lc /\ r.draft[h].id.t \in ArtifactTypes
                /\ Len(Strip(r.draft[h].val)) > 0
                /\ FindProvisionalArtifactIds(r.draft) = { r.draft[h].id })
               => /\ Len(r.after) = Len(r.before) + 1
                  /\ \A j \in 1..Len(r.before) :
                        r.after[j] = r.before[j]
                  /\ LET e == r.after[Len(r.after)]
                     IN  /\ e.artifact_id.t = r.draft[h].id.t /\ ~e.artifact_id.pv
                         /\ e.is_file /\ e.parent = NoId
                         /\ e.name = Strip(r.draft[h].val)
                  /\ r.gone

\* a draft named "plan.md" with the single token PRD-PROVISIONAL1 has been
\* finalized in a repository that held entries, and its entry is in the ledger
C6_Witness ==
    \E i \in 1..Len(freturned) :
        LET r == freturned[i]
        IN  /\ r.name.id = Ch("plan") /\ Len(r.before) > 0
            /\ FindProvisionalArtifactIds(r.draft) = { Prov("PRD", 1, FALSE) }
            /\ r.draft[1].k = "head" /\ r.draft[1].id = Prov("PRD", 1, FALSE)
            /\ Len(r.after) = Len(r.before) + 1
            /\ r.after[Len(r.after)].name = << Ch("Foo") >>
            /\ r.gone

\* C11: when two successive updates of the same atomic field with the same
\* value have both succeeded, the content after the second is the content
\* after the first.
C11_AtomicIdempotent ==
    (/\ hcall.n >= 2 /\ hcall.ok /\ hcall.pok
     /\ HeaderKind(hcall.key) = "atomic"
     /\ hcall.pkey = hcall.key /\ hcall.parg = hcall.arg)
    => hdoc = hcall.before

\* position of a key in the registry's order of declaration
HeaderRank(key) == CHOOSE i \in 1..Len(HeaderItems) : HeaderItems[i].key = key

\* a line of the input that parse_managed_headers reads as a header of the type
IsManagedLine(ln, typ) == ln.k = "hdr" /\ ln.key \in ApplicableKeys(typ) /\ Len(Strip(ln.val)) > 0

\* the first line after the title that is neither blank nor a header of the
\* type, Len + 1 when there is none
FirstBodyLine(in, typ) ==
    LET stops == { i \in 2..Len(in) : in[i].k # "blank" /\ ~IsManagedLine(in[i], typ) }
    IN  IF stops = {} THEN Len(in) + 1 ELSE MinOf(stops)

\* the last header line of the header block, 1 (the title) when it has none
LastHeaderLine(in, typ) ==
    LET hs == { i \in 2..(FirstBodyLine(in, typ) - 1) : in[i].k = "hdr" }
    IN  IF hs = {} THEN 1 ELSE CHOOSE i \in hs : \A j \in hs : j <= i

\* out is the title of in, then header lines of the keys of the map in the
\* registry's order, then body
TitleHeadersBody(in, out, keys, body) ==
    LET n == Len(out) - Len(body) - 1
    IN  /\ n >= 0 /\ Len(in) > 0 /\ out[1] = in[1]
        /\ \A i \in 2..(n + 1) : out[i].k = "hdr"
        /\ \A i, j \in 2..(n + 1) : i < j => HeaderRank(out[i].key) < HeaderRank(out[j].key)
        /\ { out[i].key : i \in 2..(n + 1) } = keys
        /\ SubSeq(out, n + 2, Len(out)) = body

C13_HeaderRoundTrip ==
    (hcall.n > 0 /\ hcall.ok) => ParseManagedHeaders(hdoc).headers = hcall.headers

\* the files as call i of SpecContent left them
FilesAfter(i) == IF i < Len(sreturned) THEN sreturned[i + 1].before ELSE files

\* C14: update_artifact (content) on an artifact whose type has
\* can_tool_update false fails as not allowed and leaves every file as it was,
\* whether the artifact is a file or a section
C14_UpdateNotAllowed ==
    \A i \in 1..Len(sreturned) :
        LET r == sreturned[i]
        IN  (r.op = "update" /\ r.aid # NoId /\ r.aid.t \in NoToolUpdateTypes)
            => ~r.ok /\ r.error = "update_not_allowed" /\ FilesAfter(i) = r.before

\* an update of the file TASKPRD-5 and an update of the section SACC-7 were
\* both refused
C14_Witness ==
    \E i, j \in 1..Len(sreturned) :
        /\ sreturned[i].op = "update" /\ sreturned[i].aid = Aid("TASKPRD", 5)
        /\ sreturned[i].led[5].is_file /\ sreturned[i].error = "update_not_allowed"
        /\ sreturned[j].op = "update" /\ sreturned[j].aid = Aid("SACC", 7)
        /\ ~sreturned[j].led[7].is_file /\ sreturned[j].error = "update_not_allowed"

\* the section of exactly the artifact aid: first line with the heading
\* "### aid" (0 if none), first "### " heading after it (Len + 1 if none),
\* first file that has the heading (0 if none), and the lines between
OwnStart(lines, aid) ==
    LET hits == { i \in 1..Len(lines) : lines[i].k = "head" /\ lines[i].lvl = 3 /\ lines[i].id = aid }
    IN  IF hits = {} THEN 0 ELSE MinOf(hits)

OwnEnd(lines, start) ==
    LET ends == { j \in (start + 1)..Len(lines) : lines[j].k = "head" /\ lines[j].lvl = 3 }
    IN  IF ends = {} THEN Len(lines) + 1 ELSE MinOf(ends)

HostFile(fs, aid) ==
    LET hits == { f \in 1..Len(fs) : OwnStart(fs[f].lines, aid) # 0 }
    IN  IF hits = {} THEN 0 ELSE MinOf(hits)

OwnSection(fs, aid) ==
    LET lines == fs[HostFile(fs, aid)].lines
    IN  SubSeq(lines, OwnStart(lines, aid), OwnEnd(lines, OwnStart(lines, aid)) - 1)

\* C15: mark_step_done(id, n) on an artifact whose section has a line
\* "[ ] n text" checks the first such line and changes no other line of the
\* section; the same call made again fails with step-not-found and changes
\* no file
C15_MarkStepDoneOnce ==
    /\ \A i \in 1..Len(sreturned) :
          LET r == sreturned[i]
              sec == OwnSection(r.before, r.ident)
              open == { k \in 1..Len(sec) : sec[k].k = "step" /\ sec[k].lvl = 0 /\ sec[k].key = r.arg }
          IN  (r.op = "mark" /\ HostFile(r.before, r.ident) # 0 /\ open # {})
              => /\ r.ok
                 /\ RStripLines(OwnSection(FilesAfter(i), r.ident))
                        = RStripLines([sec EXCEPT ![MinOf(open)].lvl = 1])
    /\ \A i \in 1..(Len(sreturned) - 1) :
          LET r == sreturned[i]
              s == sreturned[i + 1]
          IN  (r.op = "mark" /\ s.op = "mark" /\ r.ok /\ s.ident = r.ident /\ s.arg = r.arg)
              => ~s.ok /\ s.error = "step_not_found" /\ FilesAfter(i + 1) = s.before

\* C18: update_artifact on a section artifact replaces the artifact's own
\* section only: the lines of the host file before the heading of the
\* artifact, the lines from the next "### " heading on, and the other files
\* are as they were
C18_UpdateReplacesOwnSection ==
    \A i \in 1..Len(sreturned) :
        LET r == sreturned[i]
            f == HostFile(r.before, r.aid)
            b == r.before[f].lines
            a == FilesAfter(i)[f].lines
            st == OwnStart(b, r.aid)
            en == OwnEnd(b, st)
        IN  (r.op = "update" /\ r.ok /\ r.aid # NoId /\ ~r.led[GetArtifactById(r.led, r.aid)].is_file /\ f # 0)
            => /\ \A g \in 1..Len(r.before) : g # f => FilesAfter(i)[g] = r.before[g]
               /\ Len(a) >= (st - 1) + (Len(b) - en + 1)
               /\ SubSeq(a, 1, st - 1) = SubSeq(b, 1, st - 1)
               /\ SubSeq(a, Len(a) - (Len(b) - en), Len(a)) = SubSeq(b, en, Len(b))

\* C19: get_artifact on the id of a section artifact returns the section of
\* that artifact, from its heading to the line before the next "### "
\* heading (the blank lines at its end apart), and fails with
\* section-not-found when no file has the heading
C19_GetReturnsOwnSection ==
    \A i \in 1..Len(sreturned) :
        LET r == sreturned[i]
        IN  (r.op = "get" /\ r.aid # NoId /\ ~r.led[GetArtifactById(r.led, r.aid)].is_file)
            => IF HostFile(r.before, r.aid) = 0
               THEN ~r.ok /\ r.error = "section_not_found"
               ELSE r.ok /\ r.content = RStripLines(OwnSection(r.before, r.aid))

\* C20: a status change of the UACC or SACC artifact T to S turns the member
\* of T into "T (S)" in the COVERING_TESTS list of every REQ that lists T
\* and leaves the other members of those lists as they were; a REQ that does
\* not list T keeps its section
C20_CoveringTestsOnly ==
    \A i \in 1..Len(sreturned) :
        LET r == sreturned[i]
            reqs == { r.led[k].artifact_id : k \in { x \in 1..Len(r.led) : r.led[x].artifact_id.t = "REQ" } }
        IN  (r.op = "status" /\ r.ok)
            => \A req \in { x \in reqs : HostFile(r.before, x) # 0 } :
                  LET old == ListMembers(ParseManagedHeaders(OwnSection(r.before, req)).headers, "COVERING_TESTS")
                      new == ListMembers(ParseManagedHeaders(OwnSection(FilesAfter(i), req)).headers, "COVERING_TESTS")
                  IN  IF \E k \in 1..Len(old) : CleanTask(old[k]) = << r.aid >>
                      THEN /\ Len(new) = Len(old)
                           /\ \A k \in 1..Len(old) :
                                 new[k] = IF CleanTask(old[k]) = << r.aid >> THEN Annotated(r.aid, r.arg) ELSE old[k]
                      ELSE OwnSection(FilesAfter(i), req) = OwnSection(r.before, req)

C17_OnlySuppliedFields ==
    \A i \in 1..Len(sreturned) :
        LET r == sreturned[i]
            b == r.led
            a == IF i < Len(sreturned) THEN sreturned[i + 1].led ELSE ledger
            k == FirstMatch(b, r.ident)
            f == r.arg
        IN  r.op = "index_update"
            => IF k = 0 THEN ~r.ok /\ a = b
               ELSE /\ r.ok /\ Len(a) = Len(b)
                    /\ \A j \in 1..Len(b) : j # k => a[j] = b[j]
                    /\ a[k].doc_id = b[k].doc_id /\ a[k].artifact_id = b[k].artifact_id
                    /\ a[k].name = IF f.name # NoVal THEN f.name ELSE b[k].name
                    /\ a[k].status = IF f.status # NoVal THEN f.status ELSE b[k].status
                    /\ a[k].is_file = IF "is_file" \in DOMAIN f THEN f.is_file ELSE b[k].is_file
                    /\ a[k].parent = IF "parent" \in DOMAIN f THEN f.parent ELSE b[k].parent

\* a status alone was written to the entry of REQ-4, found by the id in
\* lower case, and an update of REQ-11, of which there is no entry, returned
\* false
C17_Witness ==
    \E i, j \in 1..Len(sreturned) :
        /\ sreturned[i].op = "index_update" /\ sreturned[i].ok /\ sreturned[i].ident.lc
        /\ sreturned[i].arg = [name |-> NoVal, status |-> "ACTIVE"]
        /\ j = i + 1 /\ sreturned[j].led[4].status = "ACTIVE" /\ sreturned[j].led[4].name = "Logout"
        /\ sreturned[j].op = "index_update" /\ ~sreturned[j].ok /\ sreturned[j].ident = Aid("REQ", 11)
        /\ ledger = sreturned[j].led

\* C21: in the content a finalization wrote, every step reference
\* "PROVISIONALk.m" of the draft, k the number of a provisional token that
\* received a final id with number f, reads "f.m".
C21_StepReferencesRenumbered ==
    \A i \in 1..Len(freturned) :
        LET r == freturned[i]
            src == RStripLines(r.draft)
        IN  \A k \in 1..Len(r.mapping) : \A li \in 1..Len(src) : \A j \in 1..Len(src[li].val) :
               (/\ src[li].val[j].t = ".1" /\ src[li].val[j].pv
                /\ src[li].val[j].n = r.mapping[k].prov.n)
               => r.written[li].val[j] = StepRef(r.mapping[k].final.n, ".1", FALSE)

\* a main token: it is a word of a level-1 or level-2 heading, or its type
\* has is_file = true
MainToken(content, tok) ==
    \/ TypeIsFile(tok.t)
    \/ \E h \in 1..Len(content) :
          /\ content[h].k = "head" /\ content[h].lvl \in {1, 2}
          /\ \E j \in 1..Len(LineTokens(content[h])) : Upper(LineTokens(content[h])[j]) = tok

\* C22: when a finalization has returned, every provisional token of the
\* draft has a final id; in the order of allocation the doc_ids increase,
\* the main tokens come before the nested ones and each group is in sorted
\* token order; a main entry has is_file = true and no parent, a nested
\* entry has is_file = false and the first main's final id as parent
\* (finalize_provisional_file supplies no parent).
C22_MainsBeforeNested ==
    \A i \in 1..Len(freturned) :
        LET r == freturned[i]
            n == Len(r.mapping)
            IsMain(k) == MainToken(r.draft, r.mapping[k].prov)
            EntryOf(k) == r.after[FirstMatch(r.after, r.mapping[k].final)]
        IN  /\ { r.mapping[k].prov : k \in 1..n } = FindProvisionalArtifactIds(r.draft)
            /\ \A k1, k2 \in 1..n :
                   k1 < k2 => /\ EntryOf(k1).doc_id < EntryOf(k2).doc_id
                              /\ IsMain(k2) => IsMain(k1)
                              /\ IsMain(k1) = IsMain(k2) => IdLess(r.mapping[k1].prov, r.mapping[k2].prov)
            /\ \A k \in 1..n :
                   IF IsMain(k) THEN EntryOf(k).is_file /\ EntryOf(k).parent = NoId
                   ELSE /\ ~EntryOf(k).is_file
                        /\ EntryOf(k).parent = IF IsMain(1) THEN r.mapping[1].final ELSE NoId

\* C23: while a finalization is between its read of the draft and its
\* return, the draft or the target file exists; when the draft has been
\* unlinked, no file of the draft's name is left in the provisional store
\* and the repository holds the target file, whose content is the rewritten
\* content without its trailing blank lines, followed by the version marker.
C23_WriteThenDelete ==
    \A p \in Procs :
        LET f == floc[p]
            DraftExists == \E i \in 1..Len(Store) : Store[i].name = f.dname
            TargetHolds == \E i \in 1..Len(files) :
                              /\ files[i].name = GenerateTargetFilename(f.dname, f.mapping, f.suffix)
                              /\ files[i].lines = RStripLines(f.updated) \o VersionFooter
        IN  /\ pc[p] \in {"fin_alloc", "fin_write", "fin_unlink", "fin_hook"} => DraftExists \/ TargetHolds
            /\ pc[p] = "fin_hook" => ~DraftExists /\ TargetHolds

\* C24: a finalization that allocated a final id to a main token has, when
\* it returns, invoked the finalize hook of the type of its first main
\* artifact, with that artifact's final id.
C24_HookInvoked ==
    \A i \in 1..Len(freturned) :
        LET r == freturned[i]
        IN  (Len(r.mapping) > 0 /\ MainToken(r.draft, r.mapping[1].prov))
            => r.hook = r.mapping[1].final.t /\ r.main_id = r.mapping[1].final

\* the members of the REFERENCED_BY list of a file artifact, << >> when the
\* artifact has no file
ReferencedBy(led, fs, prd) ==
    LET g == GetArtifact(led, fs, prd)
    IN  IF g.ok THEN ListMembers(ParseManagedHeaders(g.content).headers, "REFERENCED_BY") ELSE << >>

\* C25: when a finalization of a draft with a main TASKPRD token and a line
\* "*Parent*: PRD-n", PRD-n a file artifact of the index, has returned, the
\* REFERENCED_BY list of PRD-n names the TASKPRD's final id exactly once, and
\* the same propagation run again leaves the files as they are; no step
\* takes a member out of the REFERENCED_BY list of a PRD.
C25_ReferencedByOnce ==
    /\ [](\A i \in 1..Len(freturned) :
            LET r == freturned[i]
                pid == ParentPrdId(r.draft)
                refs == ReferencedBy(r.after, r.files, pid[1])
            IN  (/\ Len(r.mapping) > 0 /\ r.mapping[1].prov.t = "TASKPRD"
                 /\ Len(pid) = 1 /\ pid[1].t = "PRD" /\ FirstMatch(r.before, pid[1]) # 0)
                => /\ Cardinality({ j \in 1..Len(refs) : refs[j] = << r.mapping[1].final >> }) = 1
                   /\ UpdateParentReference(r.after, r.files, r.written, r.mapping[1].final) = r.files)
    /\ [][\A e \in Elems(ledger) :
             e.artifact_id.t = "PRD"
             => Elems(ReferencedBy(ledger, files, e.artifact_id))
                   \subseteq Elems(ReferencedBy(ledger', files', e.artifact_id))]_vars

\* the members of the IMPLEMENTING_TASKS list of a REQ's own section
ImplementingTasks(fs, req) ==
    ListMembers(ParseManagedHeaders(OwnSection(fs, req)).headers, "IMPLEMENTING_TASKS")

\* C26: after a status update of a TASK to S has succeeded, every REQ named on
\* the "*Implements*:" line of the TASK's section has in its
\* IMPLEMENTING_TASKS list exactly one member for the TASK, which reads
\* "TASK-n (S)", and the members of the other tasks are those the list had
\* before the update, in the same order
C26_ImplementingTaskStatus ==
    Len(sreturned) > 0 =>
        LET r == sreturned[Len(sreturned)]
            Others(l) == SelectSeq(l, LAMBDA m : CleanTask(m) # << r.aid >>)
        IN  (r.op = "status" /\ r.ok /\ r.aid.t = "TASK") =>
                \A q \in Elems(ExtractReqImplementations(OwnSection(r.before, r.aid))) :
                    LET now == ImplementingTasks(files, q)
                    IN  /\ Cardinality({ i \in 1..Len(now) : CleanTask(now[i]) = << r.aid >> }) = 1
                        /\ \E i \in 1..Len(now) : now[i] = Annotated(r.aid, r.arg)
                        /\ Others(now) = Others(ImplementingTasks(r.before, q))

\* C27: every status a step writes into the index, into a new entry or an
\* entry it changes, is empty or a member of the valid statuses of the
\* entry's type (the type's own list, else the global vocabulary); the status
\* NEW that the finalize hooks write is such a member
C27_StatusesValid ==
    [][\A i \in 1..Len(ledger') :
          (i > Len(ledger) \/ ledger'[i].status # ledger[i].status)
          => \/ ledger'[i].status = NoVal
             \/ ledger'[i].status \in GetValidStatusesForType(ledger'[i].artifact_id.t)]_vars

\* C28: after a finalization that allocated a final id to a main token,
\* get_artifact on that id succeeds and reads the file the finalization
\* wrote: the target name made from the draft's name is one the locator
\* ("ID_*.md", then "ID.md") finds for the id, whatever the draft's name and
\* with or without a suffix
C28_TargetLocated ==
    \A i \in 1..Len(freturned) :
        LET r == freturned[i]
        IN  (Len(r.mapping) > 0 /\ MainToken(r.draft, r.mapping[1].prov)) =>
                \E g \in { GetArtifact(r.after, r.files, r.mapping[1].final) } :
                    g.ok /\ r.files[g.file].name = r.target

\* C29: when two update_artifact calls on two different section artifacts of
\* one host file have both returned success, the host file holds the new
\* content of both sections, whatever the interleaving of their reads and
\* writes was
C29_BothUpdatesTakeEffect ==
    \A i, j \in 1..Len(sreturned) :
        LET a == sreturned[i]  b == sreturned[j]
        IN  (/\ i < j /\ a.op = "update" /\ b.op = "update" /\ a.ok /\ b.ok
             /\ a.aid # b.aid
             /\ HostFile(ContentRepo, a.aid) = HostFile(ContentRepo, b.aid)
             /\ \A p \in Procs : pc[p] = "idle")
            => /\ HostFile(files, a.aid) # 0 /\ HostFile(files, b.aid) # 0
               /\ OwnSection(files, a.aid) = RStripLines(a.arg)
               /\ OwnSection(files, b.aid) = RStripLines(b.arg)

\* C30: the lock of the ledger is held only by a caller inside the locked
\* part of add_artifact, so every exit, by return or by exception, has
\* released it; and under fair scheduling every add_artifact call that waits
\* for the lock acquires it, and every call that holds it returns, with a
\* doc_id or an error
C30_NoAllocationBlocksForever ==
    /\ [](\A p \in Procs : lockHolder = p => pc[p] \in {"add_next", "add_append", "add_unlock"})
    /\ \A p \in Procs : (pc[p] = "add_lock") ~> (lockHolder = p)
    /\ \A p \in Procs : (lockHolder = p) ~> (pc[p] = "idle" /\ lockHolder # p)

\* a caller waits for the lock that another caller holds, after a call has
\* left add_artifact by an exception raised under the lock
C30_Witness ==
    /\ \E p \in Procs : pc[p] = "add_lock" /\ lockHolder \notin {0, p}
    /\ \E i \in 1..Len(returned) : returned[i].err = "OSError"

====
